---------------------------- MODULE Spec2Model ----------------------------
(***************************************************************************)
(* A model of the MTH9815 bond trading system: the Service / Listener /    *)
(* Connector backbone (soa), the order-book engine (marketdataservice),    *)
(* the algo-execution decisioning (algoexecutionservice), trade booking,   *)
(* positions, inquiries, pricing and the fractional price codec            *)
(* (utilities).                                                            *)
(*                                                                         *)
(* Prices are C++ doubles that are dyadic rationals; the model keeps them  *)
(* as integers counting 1/256ths, which is exact for every value the codec *)
(* produces.  Text fields of the feeds are sequences of one-character      *)
(* strings, so that parsing and formatting are modelled by what they do.   *)
(***************************************************************************)
EXTENDS Integers, Sequences, FiniteSets, TLC

(***************************************************************************)
(* Bounds of the model.                                                    *)
(***************************************************************************)
\* number of operations (feed records, triggers, queries) of one run
MaxOps == 2
\* number of calls of a run of the order-book engine alone
MaxAggregations == 2
\* length of a raw bid stack of the order-book engine alone
MaxRaw == 3
\* number of operations of a run of trade booking and positions alone
MaxTrades == 3
\* number of records of a file
MaxFileRecords == 2
\* number of triggers of a run of the decisioning alone
MaxTriggers == 3
\* order ids in use at a time in an endless run
MaxIds == 4
\* number of calls of the codec in a run of the codec alone
MaxCodecCalls == 2
\* whole points above 0 and above 99 of the prices given to the codec
MaxPoints == 2

(***************************************************************************)
(* Program constants.                                                      *)
(***************************************************************************)
\* MarketDataService::bookDepth, set by the constructor
BookDepth == 5
\* one price point in 1/256ths
Unit == 256
\* the tightness threshold 1.0 / 128.0 in 1/256ths
TightSpread == 2
\* size of level 1 written by genOrderBook
LevelSize == 1000000

\* main calls Subscribe of a connector once
SubscribeCalls == 1
\* count % 2: the parity of count is all that AlgoExecuteOrder reads of it
CountCycle == 2
\* count % 3 of TradeBookingServiceListener::ProcessAdd
BookCycle == 3

\* enum PricingSide { BID, OFFER }
PricingSide == {"BID", "OFFER"}

\* the CUSIPs of productConstructors used by the model, and one that is not in it
Cusips == {"9128283H1", "9128283L2"}
UnknownCusip == "000000000"

(***************************************************************************)
(* Text: std::string as a sequence of characters.                          *)
(***************************************************************************)
DigitChars == <<"0", "1", "2", "3", "4", "5", "6", "7", "8", "9">>

IsDigit(c) == \E d \in 1..10 : DigitChars[d] = c

DigitVal(c) == (CHOOSE d \in 1..10 : DigitChars[d] = c) - 1

\* the value of a run of digits
RECURSIVE DigitsValue(_)
DigitsValue(s) == IF s = <<>> THEN 0 ELSE 10 * DigitsValue(SubSeq(s, 1, Len(s) - 1)) + DigitVal(s[Len(s)])

\* the number of digits of s from position i on
RECURSIVE DigitRun(_, _)
DigitRun(s, i) == IF i > Len(s) \/ ~IsDigit(s[i]) THEN 0 ELSE 1 + DigitRun(s, i + 1)

\* std::stod / std::stol on text without blanks, points or letters: an optional
\* sign and the longest run of digits; no conversion is std::invalid_argument
Stod(s) ==
    LET signLen == IF Len(s) > 0 /\ s[1] \in {"+", "-"} THEN 1 ELSE 0
        n == DigitRun(s, signLen + 1)
        v == DigitsValue(SubSeq(s, signLen + 1, signLen + n))
    IN  IF n = 0 THEN [ok |-> FALSE, val |-> 0]
        ELSE [ok |-> TRUE, val |-> IF signLen = 1 /\ s[1] = "-" THEN -v ELSE v]

\* std::to_string of a non-negative int
RECURSIVE NatToString(_)
NatToString(n) == IF n < 10 THEN <<DigitChars[n + 1]>> ELSE Append(NatToString(n \div 10), DigitChars[(n % 10) + 1])

\* std::to_string of an int
to_string(n) == IF n < 0 THEN <<"-">> \o NatToString(-n) ELSE NatToString(n)

\* string::find(c): the first position of c (from 1), 0 for npos
Find(s, c) == IF \E i \in 1..Len(s) : s[i] = c THEN CHOOSE i \in 1..Len(s) : s[i] = c /\ \A j \in 1..(i - 1) : s[j] # c ELSE 0

(***************************************************************************)
(* utilities.hpp: the price codec.                                         *)
(***************************************************************************)
\* a variant of Frac2Price that refuses a fractional part of fewer than 3
\* characters and lets a longer one through
Frac2PriceUnchecked(PriceFrac) ==
    LET posDash == Find(PriceFrac, "-")
        price1 == Stod(SubSeq(PriceFrac, 1, posDash - 1))
        fractionalPart == SubSeq(PriceFrac, posDash + 1, Len(PriceFrac))
        fp == IF Len(fractionalPart) >= 3 /\ fractionalPart[3] = "+" THEN [fractionalPart EXCEPT ![3] = "4"] ELSE fractionalPart
        price32 == Stod(SubSeq(fp, 1, 2))
        price256 == Stod(SubSeq(fp, 3, 3))
    IN  IF posDash = 0 \/ ~price1.ok \/ Len(fractionalPart) < 3 THEN [ok |-> FALSE, price |-> 0]
        ELSE IF ~price32.ok \/ ~price256.ok THEN [ok |-> FALSE, price |-> 0]
        ELSE [ok |-> TRUE, price |-> price1.val * Unit + price32.val * 8 + price256.val]

\* a variant of Frac2Price that does not replace '+' by '4'
Frac2PriceNoPlus(PriceFrac) ==
    LET posDash == Find(PriceFrac, "-")
        price1 == Stod(SubSeq(PriceFrac, 1, posDash - 1))
        fractionalPart == SubSeq(PriceFrac, posDash + 1, Len(PriceFrac))
        price32 == Stod(SubSeq(fractionalPart, 1, 2))
        price256 == Stod(SubSeq(fractionalPart, 3, 3))
    IN  IF posDash = 0 \/ ~price1.ok \/ Len(fractionalPart) # 3 \/ ~price32.ok \/ ~price256.ok THEN [ok |-> FALSE, price |-> 0]
        ELSE [ok |-> TRUE, price |-> price1.val * Unit + price32.val * 8 + price256.val]

\* Frac2Price: "I-XYz" to a price in 1/256ths; ok = FALSE is std::invalid_argument
Frac2Price(PriceFrac) ==
    LET posDash == Find(PriceFrac, "-")
        price1 == Stod(SubSeq(PriceFrac, 1, posDash - 1))
        fractionalPart == SubSeq(PriceFrac, posDash + 1, Len(PriceFrac))
        fp == IF Len(fractionalPart) = 3 /\ fractionalPart[3] = "+" THEN [fractionalPart EXCEPT ![3] = "4"] ELSE fractionalPart
        price32 == Stod(SubSeq(fp, 1, 2))
        price256 == Stod(SubSeq(fp, 3, 3))
    IN  IF posDash = 0 THEN [ok |-> FALSE, price |-> 0]
        ELSE IF ~price1.ok THEN [ok |-> FALSE, price |-> 0]
        ELSE IF Len(fractionalPart) # 3 THEN [ok |-> FALSE, price |-> 0]
        ELSE IF ~price32.ok \/ ~price256.ok THEN [ok |-> FALSE, price |-> 0]
        ELSE [ok |-> TRUE, price |-> price1.val * Unit + price32.val * 8 + price256.val]

\* a variant of Price2Frac that writes z as a digit always
Price2FracDigits(price) ==
    LET intpart == price \div Unit
        fracpart == price - intpart * Unit
        xy == fracpart \div 8
        z == fracpart % 8
    IN  to_string(intpart) \o <<"-">> \o (IF xy < 10 THEN <<"0">> ELSE <<>>) \o to_string(xy) \o to_string(z)

\* Price2Frac: a non-negative price in 1/256ths to "I-XYz"
Price2Frac(price) ==
    LET intpart == price \div Unit
        fracpart == price - intpart * Unit
        xy == fracpart \div 8
        z == fracpart % 8
    IN  to_string(intpart) \o <<"-">> \o (IF xy < 10 THEN <<"0">> ELSE <<>>) \o to_string(xy) \o (IF z = 4 THEN <<"+">> ELSE to_string(z))

(***************************************************************************)
(* The state of the program: one keyed store per service, the counters,    *)
(* and what the last operation did.                                        *)
(***************************************************************************)
VARIABLES
    priceData,          \* PricingService::priceData
    orderBookMap,       \* MarketDataService::orderBookMap
    algoExecutionData,  \* AlgoExecutionService::algoExecutionData
    count,              \* AlgoExecutionService::count
    randCalls,          \* the number of identifiers GenerateRandomId has produced
    executionData,      \* ExecutionService's store
    tradeData,          \* TradeBookingService::tradeData
    listenerCount,      \* TradeBookingServiceListener::count
    positionData,       \* PositionService::positionData
    riskData,           \* RiskService's store
    inquiryData,        \* InquiryService::inquiryData
    aborted,            \* the process has crashed
    events,             \* the listener callbacks of the last operation, in order
    lastOp,             \* the last operation, its input and its result
    lastQualSide,       \* the side of the intent of the last qualifying trigger
    opsLeft             \* operations the run still has

vars == <<priceData, orderBookMap, algoExecutionData, count, randCalls, executionData, tradeData, listenerCount, positionData, riskData, inquiryData, aborted, events, lastOp, lastQualSide, opsLeft>>

\* std::map: a function on the keys present
EmptyMap == [k \in {} |-> 0]

Has(m, k) == k \in DOMAIN m

Put(m, k, v) == [x \in (DOMAIN m) \cup {k} |-> IF x = k THEN v ELSE m[x]]

Erase(m, k) == [x \in (DOMAIN m) \ {k} |-> m[x]]

\* the services' state as one value, threaded through the nested calls
State == [priceData |-> priceData, orderBookMap |-> orderBookMap, algoExecutionData |-> algoExecutionData, count |-> count, randCalls |-> randCalls, executionData |-> executionData, tradeData |-> tradeData, listenerCount |-> listenerCount, positionData |-> positionData, riskData |-> riskData, inquiryData |-> inquiryData, aborted |-> aborted, events |-> <<>>]

(***************************************************************************)
(* main.cpp: the listeners of each service, in the order main adds them.   *)
(***************************************************************************)
PricingListeners == <<"AlgoStreamingListener", "GUIServiceListener">>

MarketDataListeners == <<"AlgoExecutionServiceListener">>

AlgoExecutionListeners == <<"ExecutionServiceListener">>

ExecutionListeners == <<"TradeBookingServiceListener", "HistoricalExecutionListener">>

TradeBookingListeners == <<"PositionServiceListener">>

\* a wiring that adds the historical listener of the positions first
PositionListenersHistoricalFirst == <<"HistoricalPositionListener", "RiskServiceListener">>

PositionListeners == <<"RiskServiceListener", "HistoricalPositionListener">>

RiskListeners == <<"HistoricalRiskListener">>

InquiryListeners == <<"HistoricalInquiryListener">>

(***************************************************************************)
(* The listener callbacks.  A callback is entered ("call"), runs to        *)
(* completion with everything it triggers, and returns ("ret").            *)
(***************************************************************************)
Enter(st, svc, listener, data) == [st EXCEPT !.events = Append(@, [ev |-> "call", svc |-> svc, listener |-> listener, data |-> data])]

Leave(st, svc, listener, data) == IF st.aborted THEN st ELSE [st EXCEPT !.events = Append(@, [ev |-> "ret", svc |-> svc, listener |-> listener, data |-> data])]

\* a listener with nothing downstream in this model: the historical data
\* services, the GUI throttle and the streaming chain
SinkListener_ProcessAdd(st, data) == st

\* RiskService::AddPosition: the risk of the instrument from its aggregate position
RECURSIVE SumOver(_, _)
SumOver(f, S) == IF S = {} THEN 0 ELSE LET k == CHOOSE x \in S : TRUE IN f[k] + SumOver(f, S \ {k})

\* Position::GetAggregatePosition
GetAggregatePosition(position) == SumOver(position.bookPositionData, DOMAIN position.bookPositionData)

RECURSIVE RiskNotify(_, _, _)
RiskNotify(st, data, i) ==
    IF i > Len(RiskListeners) \/ st.aborted THEN st
    ELSE LET l == RiskListeners[i]
         IN  RiskNotify(Leave(SinkListener_ProcessAdd(Enter(st, "RiskService", l, data), data), "RiskService", l, data), data, i + 1)

RiskService_AddPosition(st, position) ==
    LET productId == position.product
        pv == [product |-> productId, quantity |-> GetAggregatePosition(position)]
    IN  RiskNotify([st EXCEPT !.riskData = Put(@, productId, pv)], pv, 1)

\* a variant of AddPosition that overwrites the position of the book
AddPositionOverwriting(position, book, quantity) == [position EXCEPT !.bookPositionData = Put(@, book, quantity)]

\* Position::AddPosition
AddPosition(position, book, quantity) ==
    IF ~Has(position.bookPositionData, book)
    THEN [position EXCEPT !.bookPositionData = Put(@, book, quantity)]
    ELSE [position EXCEPT !.bookPositionData = Put(@, book, @[book] + quantity)]

PositionDispatch(st, l, data) ==
    IF l = "RiskServiceListener" THEN RiskService_AddPosition(st, data)
    ELSE SinkListener_ProcessAdd(st, data)

RECURSIVE PositionNotify(_, _, _)
PositionNotify(st, data, i) ==
    IF i > Len(PositionListeners) \/ st.aborted THEN st
    ELSE LET l == PositionListeners[i]
         IN  PositionNotify(Leave(PositionDispatch(Enter(st, "PositionService", l, data), l, data), "PositionService", l, data), data, i + 1)

\* a variant of AddTrade that calls the listeners before it adds the trade
AddTradeNotifyingFirst(st, trade) ==
    LET productId == trade.product
        quantity == IF trade.side = "BUY" THEN trade.quantity ELSE -trade.quantity
        before == IF Has(st.positionData, productId) THEN st.positionData[productId] ELSE [product |-> productId, bookPositionData |-> EmptyMap]
        st1 == PositionNotify(st, before, 1)
    IN  [st1 EXCEPT !.positionData = Put(@, productId, AddPosition(before, trade.book, quantity))]

\* PositionService::AddTrade
AddTrade(st, trade) ==
    LET productId == trade.product
        book == trade.book
        quantity == IF trade.side = "BUY" THEN trade.quantity ELSE -trade.quantity
        st1 == IF ~Has(st.positionData, productId)
               THEN [st EXCEPT !.positionData = Put(@, productId, AddPosition([product |-> productId, bookPositionData |-> EmptyMap], book, quantity))]
               ELSE [st EXCEPT !.positionData = Put(@, productId, AddPosition(@[productId], book, quantity))]
    IN  PositionNotify(st1, st1.positionData[productId], 1)

\* PositionServiceListener::ProcessAdd
PositionServiceListener_ProcessAdd(st, data) == AddTrade(st, data)

RECURSIVE TradeBookingNotify(_, _, _)
TradeBookingNotify(st, data, i) ==
    IF i > Len(TradeBookingListeners) \/ st.aborted THEN st
    ELSE LET l == TradeBookingListeners[i]
         IN  TradeBookingNotify(Leave(PositionServiceListener_ProcessAdd(Enter(st, "TradeBookingService", l, data), data), "TradeBookingService", l, data), data, i + 1)

\* a variant of OnMessage that keeps the stored trade and notifies nobody when
\* the trade id is already stored
TradeBookingService_OnMessageOncePerId(st, data) ==
    LET key == data.tradeId
    IN  IF Has(st.tradeData, key) THEN st
        ELSE TradeBookingNotify([st EXCEPT !.tradeData = Put(@, key, data)], data, 1)

\* TradeBookingService::OnMessage
TradeBookingService_OnMessage(st, data) ==
    LET key == data.tradeId
    IN  TradeBookingNotify([st EXCEPT !.tradeData = Put(@, key, data)], data, 1)

\* TradeBookingService::BookTrade
BookTrade(st, trade) == TradeBookingNotify(st, trade, 1)

\* a variant of ProcessAdd that counts before it chooses the book (++count % 3)
TradeBookingServiceListener_ProcessAddPreIncrement(st, order) ==
    LET totalQuantity == order.visibleQuantity + order.hiddenQuantity
        tradeSide == IF order.side = "BID" THEN "BUY" ELSE "SELL"
        book == CASE (st.listenerCount + 1) % 3 = 0 -> "TRSY1"
                  [] (st.listenerCount + 1) % 3 = 1 -> "TRSY2"
                  [] OTHER -> "TRSY3"
        trade == [product |-> order.product, tradeId |-> order.orderId, price |-> order.price, book |-> book, quantity |-> totalQuantity, side |-> tradeSide]
    IN  BookTrade([st EXCEPT !.listenerCount = @ + 1], trade)

\* TradeBookingServiceListener::ProcessAdd
TradeBookingServiceListener_ProcessAdd(st, order) ==
    LET totalQuantity == order.visibleQuantity + order.hiddenQuantity
        tradeSide == IF order.side = "BID" THEN "BUY" ELSE "SELL"
        book == CASE st.listenerCount % 3 = 0 -> "TRSY1"
                  [] st.listenerCount % 3 = 1 -> "TRSY2"
                  [] OTHER -> "TRSY3"
        trade == [product |-> order.product, tradeId |-> order.orderId, price |-> order.price, book |-> book, quantity |-> totalQuantity, side |-> tradeSide]
    IN  BookTrade([st EXCEPT !.listenerCount = @ + 1], trade)

(***************************************************************************)
(* executionservice.hpp is not among the sources: ExecutionService is      *)
(* modelled as a keyed service that upserts the order under its product    *)
(* and notifies its listeners in order.                                    *)
(***************************************************************************)
ExecutionDispatch(st, l, data) ==
    IF l = "TradeBookingServiceListener" THEN TradeBookingServiceListener_ProcessAdd(st, data)
    ELSE SinkListener_ProcessAdd(st, data)

RECURSIVE ExecutionNotify(_, _, _)
ExecutionNotify(st, data, i) ==
    IF i > Len(ExecutionListeners) \/ st.aborted THEN st
    ELSE LET l == ExecutionListeners[i]
         IN  ExecutionNotify(Leave(ExecutionDispatch(Enter(st, "ExecutionService", l, data), l, data), "ExecutionService", l, data), data, i + 1)

ExecuteOrder(st, order) == ExecutionNotify([st EXCEPT !.executionData = Put(@, order.product, order)], order, 1)

ExecutionServiceListener_ProcessAdd(st, data) == ExecuteOrder(st, data.executionOrder)

(***************************************************************************)
(* marketdataservice.hpp: Order, OrderBook.                                *)
(***************************************************************************)
Order(price, quantity, side) == [price |-> price, quantity |-> quantity, side |-> side]

OrderBook(product, bidStack, offerStack) == [product |-> product, bidStack |-> bidStack, offerStack |-> offerStack]

\* std::max_element with the comparator a.price < b.price: the first greatest
MaxElement(stack) == CHOOSE i \in 1..Len(stack) : (\A j \in 1..Len(stack) : stack[j].price <= stack[i].price) /\ (\A j \in 1..(i - 1) : stack[j].price < stack[i].price)

\* a variant of MinElement that takes the front of the stack
FrontElement(stack) == 1

\* std::min_element with the comparator a.price < b.price: the first smallest
MinElement(stack) == CHOOSE i \in 1..Len(stack) : (\A j \in 1..Len(stack) : stack[j].price >= stack[i].price) /\ (\A j \in 1..(i - 1) : stack[j].price > stack[i].price)

\* What an undefined read can give: a crash, or whatever the memory holds.  The
\* model takes two values of each kind.  end holds what *end() reads.
IndetOrders(side) == {Order(0, 0, side), Order(99 * Unit, LevelSize, side)}

\* the uninitialised locals side, price, quantity of AlgoExecuteOrder
IndetLocals == {[side |-> "BID", price |-> 0, quantity |-> 0], [side |-> "OFFER", price |-> 99 * Unit, quantity |-> LevelSize]}

NoIndet == [crash |-> FALSE, bid |-> Order(0, 0, "BID"), offer |-> Order(0, 0, "OFFER"), side |-> "BID", price |-> 0, quantity |-> 0]

\* OrderBook::BestBidOffer.  On an empty stack max_element returns end() and the
\* code dereferences it: undefined behaviour, a crash or whatever u holds.
BestBidOffer(book, u) ==
    [crash |-> (book.bidStack = <<>> \/ book.offerStack = <<>>) /\ u.crash,
     bidOrder |-> IF book.bidStack = <<>> THEN u.bid ELSE book.bidStack[MaxElement(book.bidStack)],
     offerOrder |-> IF book.offerStack = <<>> THEN u.offer ELSE book.offerStack[MinElement(book.offerStack)]]

(***************************************************************************)
(* algoexecutionservice.hpp                                                *)
(***************************************************************************)
AlgoExecutionDispatch(st, l, data) ==
    IF l = "ExecutionServiceListener" THEN ExecutionServiceListener_ProcessAdd(st, data)
    ELSE SinkListener_ProcessAdd(st, data)

RECURSIVE AlgoExecutionNotify(_, _, _)
AlgoExecutionNotify(st, data, i) ==
    IF i > Len(AlgoExecutionListeners) \/ st.aborted THEN st
    ELSE LET l == AlgoExecutionListeners[i]
         IN  AlgoExecutionNotify(Leave(AlgoExecutionDispatch(Enter(st, "AlgoExecutionService", l, data), l, data), "AlgoExecutionService", l, data), data, i + 1)

\* the test of line 339: offerPrice - bidPrice <= 1.0 / 128.0
IsTight(bidOffer) == bidOffer.offerOrder.price - bidOffer.bidOrder.price <= TightSpread

\* a variant of Aggress that sizes the order from the side it takes
AggressSameSide(counter, bidOffer, u) ==
    IF counter % 2 = 0 THEN [side |-> "BID", price |-> bidOffer.offerOrder.price, quantity |-> bidOffer.offerOrder.quantity]
    ELSE [side |-> "OFFER", price |-> bidOffer.bidOrder.price, quantity |-> bidOffer.bidOrder.quantity]

\* lines 335-353: side, price and quantity of the order.  They are locals without
\* initialisers, assigned only when the spread test passes; otherwise what is
\* read later is what u holds.
Aggress(counter, bidOffer, u) ==
    IF IsTight(bidOffer)
    THEN IF counter % 2 = 0 THEN [side |-> "BID", price |-> bidOffer.offerOrder.price, quantity |-> bidOffer.bidOrder.quantity]
         ELSE [side |-> "OFFER", price |-> bidOffer.bidOrder.price, quantity |-> bidOffer.offerOrder.quantity]
    ELSE [side |-> u.side, price |-> u.price, quantity |-> u.quantity]

\* a variant of MarketOrder that hides the whole quantity
IcebergOrder(product, side, orderId, price, quantity, parentOrderId) ==
    [product |-> product, side |-> side, orderId |-> orderId, orderType |-> "MARKET", price |-> price, visibleQuantity |-> 0, hiddenQuantity |-> quantity, parentOrderId |-> parentOrderId, isChildOrder |-> FALSE]

\* lines 357-362: the execution order
MarketOrder(product, side, orderId, price, quantity, parentOrderId) ==
    [product |-> product, side |-> side, orderId |-> orderId, orderType |-> "MARKET", price |-> price, visibleQuantity |-> quantity, hiddenQuantity |-> 0, parentOrderId |-> parentOrderId, isChildOrder |-> FALSE]

\* a variant of AlgoExecuteOrder that inserts without erasing: the map keeps
\* the intent it already has for the product
AlgoExecuteOrderInsertOnly(st, _orderBook, u) ==
    LET key == _orderBook.product
        st0 == [st EXCEPT !.randCalls = @ + 2]
        bidOffer == BestBidOffer(_orderBook, u)
        a == Aggress(st.count, bidOffer, u)
        algoExecution == [executionOrder |-> MarketOrder(key, a.side, <<"Algo", st.randCalls>>, a.price, a.quantity, <<"AlgoParent", st.randCalls + 1>>), market |-> "BROKERTEC"]
        st1 == [st0 EXCEPT !.count = @ + 1, !.algoExecutionData = IF Has(@, key) THEN @ ELSE Put(@, key, algoExecution)]
    IN  IF bidOffer.crash THEN [st0 EXCEPT !.aborted = TRUE]
        ELSE AlgoExecutionNotify(st1, algoExecution, 1)

\* a variant of AlgoExecuteOrder that starts the count again from 0 when the
\* product of the trigger has no intent in the store yet
AlgoExecuteOrderResetting(st, _orderBook, u) ==
    LET key == _orderBook.product
        st0 == [st EXCEPT !.randCalls = @ + 2]
        bidOffer == BestBidOffer(_orderBook, u)
        a == Aggress(st.count, bidOffer, u)
        algoExecution == [executionOrder |-> MarketOrder(key, a.side, <<"Algo", st.randCalls>>, a.price, a.quantity, <<"AlgoParent", st.randCalls + 1>>), market |-> "BROKERTEC"]
        st1 == [st0 EXCEPT !.count = IF Has(st.algoExecutionData, key) THEN @ + 1 ELSE 0,
                           !.algoExecutionData = Put(IF Has(@, key) THEN Erase(@, key) ELSE @, key, algoExecution)]
    IN  IF bidOffer.crash THEN [st0 EXCEPT !.aborted = TRUE]
        ELSE AlgoExecutionNotify(st1, algoExecution, 1)

\* AlgoExecutionService::AlgoExecuteOrder.  u holds the outcome of the undefined
\* reads.  The identifiers of GenerateRandomId are modelled as fresh ones.
AlgoExecuteOrder(st, _orderBook, u) ==
    LET key == _orderBook.product
        orderId == <<"Algo", st.randCalls>>
        parentOrderId == <<"AlgoParent", st.randCalls + 1>>
        st0 == [st EXCEPT !.randCalls = @ + 2]
        bidOffer == BestBidOffer(_orderBook, u)
        a == Aggress(st.count, bidOffer, u)
        executionOrder == MarketOrder(key, a.side, orderId, a.price, a.quantity, parentOrderId)
        algoExecution == [executionOrder |-> executionOrder, market |-> "BROKERTEC"]
        st1 == [st0 EXCEPT !.count = @ + 1, !.algoExecutionData = Put(IF Has(@, key) THEN Erase(@, key) ELSE @, key, algoExecution)]
    IN  IF bidOffer.crash THEN [st0 EXCEPT !.aborted = TRUE]
        ELSE AlgoExecutionNotify(st1, algoExecution, 1)

\* the outcomes of the undefined reads that a trigger on this book can meet
Outcomes(book) ==
    LET ends == IF book.bidStack # <<>> /\ book.offerStack # <<>> THEN {NoIndet}
                ELSE {[NoIndet EXCEPT !.bid = b, !.offer = o] : b \in (IF book.bidStack = <<>> THEN IndetOrders("BID") ELSE {NoIndet.bid}), o \in (IF book.offerStack = <<>> THEN IndetOrders("OFFER") ELSE {NoIndet.offer})}
        crashes == IF book.bidStack # <<>> /\ book.offerStack # <<>> THEN {} ELSE {[NoIndet EXCEPT !.crash = TRUE]}
    IN  crashes \cup UNION {IF IsTight(BestBidOffer(book, e)) THEN {e} ELSE {[e EXCEPT !.side = l.side, !.price = l.price, !.quantity = l.quantity] : l \in IndetLocals} : e \in ends}

\* AlgoExecutionServiceListener::ProcessAdd
AlgoExecutionServiceListener_ProcessAdd(st, data, u) == AlgoExecuteOrder(st, data, u)

(***************************************************************************)
(* marketdataservice.hpp: MarketDataService and its connector.             *)
(***************************************************************************)
\* the keys of productConstructors (utilities.hpp); QueryProduct throws
\* std::invalid_argument for any other
QueryProductOk(cusip) == cusip \in Cusips

\* MarketDataService::GetData: "if the order book does not exist, create a new one"
MarketDataService_GetData(st, key) ==
    IF Has(st.orderBookMap, key) THEN [st |-> st, ok |-> TRUE]
    ELSE IF ~QueryProductOk(key) THEN [st |-> st, ok |-> FALSE]
    ELSE [st |-> [st EXCEPT !.orderBookMap = Put(@, key, OrderBook(key, <<>>, <<>>))], ok |-> TRUE]

\* the orders in which an unordered_map<double, long> is iterated by the model
HashOrders == {"ascending", "descending"}

RECURSIVE SortedSeq(_)
SortedSeq(S) == IF S = {} THEN <<>> ELSE LET m == CHOOSE x \in S : \A y \in S : x <= y IN <<m>> \o SortedSeq(S \ {m})

Reverse(s) == [i \in 1..Len(s) |-> s[Len(s) + 1 - i]]

IterationOrder(S, ord) == IF ord = "ascending" THEN SortedSeq(S) ELSE Reverse(SortedSeq(S))

\* the quantity the loop of lines 308-317 leaves in the map for one price
RECURSIVE QuantityAt(_, _)
QuantityAt(stack, price) == IF stack = <<>> THEN 0 ELSE (IF Head(stack).price = price THEN Head(stack).quantity ELSE 0) + QuantityAt(Tail(stack), price)

\* a variant of AggregateStack that keeps the quantity of the first entry of
\* each price
AggregateStackFirst(stack, side, ord) ==
    LET keys == IterationOrder({stack[i].price : i \in 1..Len(stack)}, ord)
    IN  [i \in 1..Len(keys) |-> Order(keys[i], stack[CHOOSE j \in 1..Len(stack) : stack[j].price = keys[i] /\ \A k \in 1..(j - 1) : stack[k].price # keys[i]].quantity, side)]

\* a variant of AggregateStack that pushes the aggregated entries onto the
\* stack it read instead of onto a new one
AggregateStackKeeping(stack, side, ord) ==
    LET keys == IterationOrder({stack[i].price : i \in 1..Len(stack)}, ord)
    IN  stack \o [i \in 1..Len(keys) |-> Order(keys[i], QuantityAt(stack, keys[i]), side)]

\* a variant of AggregateStack that marks every aggregated entry as a bid
AggregateStackBid(stack, side, ord) ==
    LET keys == IterationOrder({stack[i].price : i \in 1..Len(stack)}, ord)
    IN  [i \in 1..Len(keys) |-> Order(keys[i], QuantityAt(stack, keys[i]), "BID")]

\* one side of AggregateDepth: the map price -> summed quantity, read back in
\* the map's iteration order
AggregateStack(stack, side, ord) ==
    LET keys == IterationOrder({stack[i].price : i \in 1..Len(stack)}, ord)
    IN  [i \in 1..Len(keys) |-> Order(keys[i], QuantityAt(stack, keys[i]), side)]

\* std::map::operator[] on an absent key value-initialises the mapped object,
\* whose product member is built by Bond::Bond() : Product(0, BOND), a
\* std::string from a null pointer: undefined behaviour.  The outcomes are
\* std::logic_error (nothing inserted), a crash, or an object with an empty
\* product id inserted under the key.
DefaultOutcomes == {"logic_error", "crash", "constructed"}

\* orderBookMap[productId]: d is the outcome when the key is absent
OrderBookMapAt(st, productId, d) ==
    IF Has(st.orderBookMap, productId) THEN [st |-> st, status |-> "ok"]
    ELSE IF d = "constructed" THEN [st |-> [st EXCEPT !.orderBookMap = Put(@, productId, OrderBook("", <<>>, <<>>))], status |-> "ok"]
    ELSE IF d = "crash" THEN [st |-> [st EXCEPT !.aborted = TRUE], status |-> "crash"]
    ELSE [st |-> st, status |-> "logic_error"]

\* MarketDataService::AggregateDepth
AggregateDepth(st, productId, ord, d) ==
    LET at == OrderBookMapAt(st, productId, d)
        orderBook == at.st.orderBookMap[productId]
    IN  IF at.status # "ok" THEN at
        ELSE [st |-> [at.st EXCEPT !.orderBookMap = Put(@, productId, OrderBook(orderBook.product, AggregateStack(orderBook.bidStack, "BID", ord), AggregateStack(orderBook.offerStack, "OFFER", ord)))], status |-> "ok"]

\* MarketDataService::BestBidOffer(productId); the reference it returns is to a
\* temporary, so the model keeps only how the call ends
MarketDataService_BestBidOffer(st, productId, d, u) ==
    LET at == OrderBookMapAt(st, productId, d)
        bidOffer == BestBidOffer(at.st.orderBookMap[productId], u)
    IN  IF at.status # "ok" THEN at
        ELSE IF bidOffer.crash THEN [st |-> [at.st EXCEPT !.aborted = TRUE], status |-> "crash"]
        ELSE [st |-> at.st, status |-> "ok"]

RECURSIVE MarketDataNotify(_, _, _, _)
MarketDataNotify(st, data, u, i) ==
    IF i > Len(MarketDataListeners) \/ st.aborted THEN st
    ELSE LET l == MarketDataListeners[i]
         IN  MarketDataNotify(Leave(AlgoExecutionServiceListener_ProcessAdd(Enter(st, "MarketDataService", l, data), data, u), "MarketDataService", l, data), data, u, i + 1)

\* MarketDataService::OnMessage
MarketDataService_OnMessage(st, data, u) ==
    LET key == data.product
    IN  MarketDataNotify([st EXCEPT !.orderBookMap = Put(Erase(@, key), key, data)], data, u, 1)

\* std::stol: as stod on text of digits
Stol(s) == Stod(s)

\* the loop of lines 402-414 from level i on: ok = FALSE when a field does not parse
RECURSIVE ReadLevels(_, _, _, _)
ReadLevels(st, productID, splitdata, i) ==
    IF i >= BookDepth THEN [st |-> st, ok |-> TRUE]
    ELSE LET bidPrice == Frac2Price(splitdata[4 * i + 3])
             bidQuantity == Stol(splitdata[4 * i + 4])
             askPrice == Frac2Price(splitdata[4 * i + 5])
             askQuantity == Stol(splitdata[4 * i + 6])
             orderBook == st.orderBookMap[productID]
             pushed == OrderBook(orderBook.product, Append(orderBook.bidStack, Order(bidPrice.price, bidQuantity.val, "BID")), Append(orderBook.offerStack, Order(askPrice.price, askQuantity.val, "OFFER")))
         IN  IF ~(bidPrice.ok /\ bidQuantity.ok /\ askPrice.ok /\ askQuantity.ok) THEN [st |-> st, ok |-> FALSE]
             ELSE ReadLevels([st EXCEPT !.orderBookMap = Put(@, productID, pushed)], productID, splitdata, i + 1)

\* MarketDataConnector::Subscribe, the body of the loop for one line of the
\* file, up to the call of OnMessage (lines 388-416)
SubscribeRead(st, splitdata, ord) ==
    LET productID == splitdata[2]
        got == MarketDataService_GetData(st, productID)
        read == ReadLevels(got.st, productID, splitdata, 0)
        agg == AggregateDepth(read.st, productID, ord, "logic_error").st
    IN  IF ~got.ok THEN [st |-> got.st, status |-> "invalid_argument", aggregatedOrderBook |-> OrderBook("", <<>>, <<>>)]
        ELSE IF ~read.ok THEN [st |-> read.st, status |-> "invalid_argument", aggregatedOrderBook |-> OrderBook("", <<>>, <<>>)]
        ELSE [st |-> agg, status |-> "ok", aggregatedOrderBook |-> agg.orderBookMap[productID]]

\* ... and the call of OnMessage (line 417)
SubscribeDeliver(read, u) ==
    IF read.status # "ok" THEN [st |-> read.st, status |-> read.status]
    ELSE [st |-> MarketDataService_OnMessage(read.st, read.aggregatedOrderBook, u), status |-> "ok"]

\* genOrderBook: the order-book line for a product, a mid price (in 1/256ths)
\* and a spread (in 1/128ths)
RECURSIVE GenLevels(_, _, _)
GenLevels(midPrice, fixSpread, level) ==
    IF level > 5 THEN <<>>
    ELSE <<Price2Frac(midPrice - fixSpread * level), to_string(level * LevelSize), Price2Frac(midPrice + fixSpread * level), to_string(level * LevelSize)>> \o GenLevels(midPrice, fixSpread, level + 1)

GenOrderBookLine(product, midPrice, fixSpread) == <<"timestamp", product>> \o GenLevels(midPrice, fixSpread, 1)

(***************************************************************************)
(* pricingservice.hpp.  mid is kept in 1/512ths, so that (bid + ask) / 2   *)
(* is exact; bidOfferSpread is in 1/256ths.                                *)
(***************************************************************************)
Price(product, mid, bidOfferSpread) == [product |-> product, mid |-> mid, bidOfferSpread |-> bidOfferSpread]

RECURSIVE PricingNotify(_, _, _)
PricingNotify(st, data, i) ==
    IF i > Len(PricingListeners) \/ st.aborted THEN st
    ELSE LET l == PricingListeners[i]
         IN  PricingNotify(Leave(SinkListener_ProcessAdd(Enter(st, "PricingService", l, data), data), "PricingService", l, data), data, i + 1)

\* a variant of PricingService::OnMessage that inserts without erasing first:
\* std::map::insert keeps the value already stored
PricingService_OnMessageInsertOnly(st, data) ==
    PricingNotify([st EXCEPT !.priceData = IF Has(@, data.product) THEN @ ELSE Put(@, data.product, data)], data, 1)

\* PricingService::OnMessage
PricingService_OnMessage(st, data) ==
    LET key == data.product
    IN  PricingNotify([st EXCEPT !.priceData = Put(IF Has(@, key) THEN Erase(@, key) ELSE @, key, data)], data, 1)

\* a variant of the body of the loop that reads the ask before the bid
PricingConnector_SubscribeLineSwapped(st, splitdata) ==
    LET productID == splitdata[2]
        bid == Frac2Price(splitdata[4])
        ask == Frac2Price(splitdata[3])
        mid == bid.price + ask.price
        spread == ask.price - bid.price
    IN  IF ~bid.ok \/ ~ask.ok THEN [st |-> st, status |-> "invalid_argument", data |-> <<>>]
        ELSE IF ~QueryProductOk(productID) THEN [st |-> st, status |-> "invalid_argument", data |-> <<>>]
        ELSE [st |-> PricingService_OnMessage(st, Price(productID, mid, spread)), status |-> "ok", data |-> Price(productID, mid, spread)]

\* PricingConnector::Subscribe, the body of the loop for one line of the file
PricingConnector_SubscribeLine(st, splitdata) ==
    LET productID == splitdata[2]
        bid == Frac2Price(splitdata[3])
        ask == Frac2Price(splitdata[4])
        mid == bid.price + ask.price
        spread == ask.price - bid.price
    IN  IF ~bid.ok \/ ~ask.ok THEN [st |-> st, status |-> "invalid_argument", data |-> <<>>]
        ELSE IF ~QueryProductOk(productID) THEN [st |-> st, status |-> "invalid_argument", data |-> <<>>]
        ELSE [st |-> PricingService_OnMessage(st, Price(productID, mid, spread)), status |-> "ok", data |-> Price(productID, mid, spread)]

\* PricingService::GetData
PricingService_GetData(st, key) ==
    IF Has(st.priceData, key) THEN [st |-> st, status |-> "ok", value |-> st.priceData[key]]
    ELSE [st |-> st, status |-> "Key not found", value |-> <<>>]

\* AlgoExecutionService::GetData
AlgoExecutionService_GetData(st, key) ==
    IF Has(st.algoExecutionData, key) THEN [st |-> st, status |-> "ok", value |-> st.algoExecutionData[key]]
    ELSE [st |-> st, status |-> "Key not found", value |-> <<>>]

\* TradeBookingService::GetData
TradeBookingService_GetData(st, key) ==
    IF Has(st.tradeData, key) THEN [st |-> st, status |-> "ok", value |-> st.tradeData[key]]
    ELSE [st |-> st, status |-> "Key not found", value |-> <<>>]

\* a variant of PositionService::GetData that creates the record of an absent key
PositionService_GetDataCreating(st, key) ==
    IF Has(st.positionData, key) THEN [st |-> st, status |-> "ok", value |-> st.positionData[key]]
    ELSE [st |-> [st EXCEPT !.positionData = Put(@, key, [product |-> key, bookPositionData |-> EmptyMap])], status |-> "ok", value |-> [product |-> key, bookPositionData |-> EmptyMap]]

\* PositionService::GetData
PositionService_GetData(st, key) ==
    IF Has(st.positionData, key) THEN [st |-> st, status |-> "ok", value |-> st.positionData[key]]
    ELSE [st |-> st, status |-> "Key not found", value |-> <<>>]

\* vector::operator[] past the end of the tokens of a line: undefined
\* behaviour, a crash or the text the memory happens to hold
OutOfRangeReads == {"crash", "BUY", ""}

\* tokens[i] (from 1); g is the outcome of a read past the end
TokenAt(tokens, i, g) == IF i <= Len(tokens) THEN tokens[i] ELSE g

\* a variant of the trade connector that undoes the trades and positions of the
\* earlier lines when a line fails
TradeBookingConnector_SubscribeLineRollingBack(st, tokens, g) ==
    LET price == Frac2Price(tokens[3])
        quantity == Stol(tokens[5])
        trade == [product |-> tokens[1], tradeId |-> tokens[2], price |-> price.price, book |-> tokens[4], quantity |-> quantity.val, side |-> IF TokenAt(tokens, 6, g) = "BUY" THEN "BUY" ELSE "SELL"]
    IN  IF ~QueryProductOk(tokens[1]) \/ ~price.ok \/ ~quantity.ok
        THEN [st |-> [st EXCEPT !.tradeData = EmptyMap, !.positionData = EmptyMap, !.riskData = EmptyMap], status |-> "invalid_argument", data |-> <<>>]
        ELSE IF Len(tokens) < 6 /\ g = "crash" THEN [st |-> [st EXCEPT !.aborted = TRUE], status |-> "crash", data |-> <<>>]
        ELSE [st |-> TradeBookingService_OnMessage(st, trade), status |-> "ok", data |-> trade]

\* TradeBookingConnector::Subscribe, the body of the loop for one line of the
\* file; g is the outcome of reading a token the line does not have
TradeBookingConnector_SubscribeLine(st, tokens, g) ==
    LET productId == tokens[1]
        tradeId == tokens[2]
        price == Frac2Price(tokens[3])
        book == tokens[4]
        quantity == Stol(tokens[5])
        side == IF TokenAt(tokens, 6, g) = "BUY" THEN "BUY" ELSE "SELL"
        trade == [product |-> productId, tradeId |-> tradeId, price |-> price.price, book |-> book, quantity |-> quantity.val, side |-> side]
    IN  IF ~QueryProductOk(productId) THEN [st |-> st, status |-> "invalid_argument", data |-> <<>>]
        ELSE IF ~price.ok \/ ~quantity.ok THEN [st |-> st, status |-> "invalid_argument", data |-> <<>>]
        ELSE IF Len(tokens) < 6 /\ g = "crash" THEN [st |-> [st EXCEPT !.aborted = TRUE], status |-> "crash", data |-> <<>>]
        ELSE [st |-> TradeBookingService_OnMessage(st, trade), status |-> "ok", data |-> trade]

(***************************************************************************)
(* inquiryservice.hpp                                                      *)
(***************************************************************************)
Inquiry(inquiryId, product, side, quantity, price, state) == [inquiryId |-> inquiryId, product |-> product, side |-> side, quantity |-> quantity, price |-> price, state |-> state]

\* a value-initialised Inquiry whose product could be built
DefaultInquiry == Inquiry("", "", "BUY", 0, 0, "RECEIVED")

\* Inquiry::SetState: the change of state is recorded with the callbacks
Inquiry_SetState(st, inquiryId, _state) == [st EXCEPT !.events = Append(@, [ev |-> "SetState", svc |-> "InquiryService", listener |-> inquiryId, data |-> _state])]

RECURSIVE InquiryNotify(_, _, _)
InquiryNotify(st, data, i) ==
    IF i > Len(InquiryListeners) \/ st.aborted THEN st
    ELSE LET l == InquiryListeners[i]
         IN  InquiryNotify(Leave(SinkListener_ProcessAdd(Enter(st, "InquiryService", l, data), data), "InquiryService", l, data), data, i + 1)

\* inquiryData[inquiryId]: d is the outcome when the key is absent
InquiryDataAt(st, inquiryId, d) ==
    IF Has(st.inquiryData, inquiryId) THEN [st |-> st, status |-> "ok"]
    ELSE IF d = "constructed" THEN [st |-> [st EXCEPT !.inquiryData = Put(@, inquiryId, DefaultInquiry)], status |-> "ok"]
    ELSE IF d = "crash" THEN [st |-> [st EXCEPT !.aborted = TRUE], status |-> "crash"]
    ELSE [st |-> st, status |-> "logic_error"]

\* InquiryService::OnMessage; data is passed by reference, so the result carries
\* it back.  Publish and SubscribeUpdate of the connector call OnMessage again.
RECURSIVE InquiryService_OnMessage(_, _, _)
\* InquiryConnector::SubscribeUpdate
InquiryConnector_SubscribeUpdate(st, data, d) == InquiryService_OnMessage(st, data, d)

\* a variant of Publish that completes the inquiry itself
InquiryConnector_PublishDone(st, data, d) ==
    IF data.state = "RECEIVED" THEN InquiryConnector_SubscribeUpdate(Inquiry_SetState(st, data.inquiryId, "DONE"), [data EXCEPT !.state = "DONE"], d)
    ELSE [st |-> st, data |-> data, status |-> "ok"]

\* InquiryConnector::Publish
InquiryConnector_Publish(st, data, d) ==
    IF data.state = "RECEIVED" THEN InquiryConnector_SubscribeUpdate(Inquiry_SetState(st, data.inquiryId, "QUOTED"), [data EXCEPT !.state = "QUOTED"], d)
    ELSE [st |-> st, data |-> data, status |-> "ok"]

InquiryService_OnMessage(st, data, d) ==
    LET inquiryId == data.inquiryId
        done == [data EXCEPT !.state = "DONE"]
        sw == CASE data.state = "RECEIVED" -> InquiryConnector_Publish(st, data, d)
                [] data.state = "QUOTED" -> [st |-> InquiryNotify([Inquiry_SetState(st, inquiryId, "DONE") EXCEPT !.inquiryData = Put(IF Has(@, inquiryId) THEN Erase(@, inquiryId) ELSE @, inquiryId, done)], done, 1), data |-> done, status |-> "ok"]
                [] OTHER -> [st |-> st, data |-> data, status |-> "ok"]
        at == InquiryDataAt(sw.st, inquiryId, d)
    IN  IF sw.status # "ok" THEN sw
        ELSE IF sw.data.state = "DONE"
        THEN [st |-> InquiryNotify([sw.st EXCEPT !.inquiryData = IF Has(@, inquiryId) THEN Erase(@, inquiryId) ELSE @], sw.data, 1), data |-> sw.data, status |-> "ok"]
        ELSE IF at.status # "ok" THEN [st |-> at.st, data |-> sw.data, status |-> at.status]
        ELSE [st |-> InquiryNotify([at.st EXCEPT !.inquiryData = Put(@, inquiryId, sw.data)], sw.data, 1), data |-> sw.data, status |-> "ok"]

\* InquiryService::GetData
InquiryService_GetData(st, key) ==
    IF Has(st.inquiryData, key) THEN [st |-> st, status |-> "ok", value |-> st.inquiryData[key]]
    ELSE [st |-> st, status |-> "Key not found", value |-> <<>>]

\* InquiryService::SendQuote
SendQuote(st, inquiryId, price, d) ==
    LET at == InquiryDataAt(st, inquiryId, d)
        st1 == [at.st EXCEPT !.inquiryData[inquiryId].price = price]
    IN  IF at.status # "ok" THEN at
        ELSE [st |-> InquiryNotify(st1, st1.inquiryData[inquiryId], 1), status |-> "ok"]

\* InquiryService::RejectInquiry
RejectInquiry(st, inquiryId, d) ==
    LET at == InquiryDataAt(st, inquiryId, d)
    IN  IF at.status # "ok" THEN at
        ELSE [st |-> [Inquiry_SetState(at.st, inquiryId, "REJECTED") EXCEPT !.inquiryData[inquiryId].state = "REJECTED"], status |-> "ok"]

\* InquiryConnector::Subscribe, the body of the loop for one line of the file
InquiryConnector_SubscribeLine(st, tokens, d) ==
    LET inquiryId == tokens[1]
        productId == tokens[2]
        side == IF tokens[3] = "BUY" THEN "BUY" ELSE "SELL"
        quantity == Stol(tokens[4])
        price == Frac2Price(tokens[5])
        state == IF tokens[6] \in {"RECEIVED", "QUOTED", "DONE", "REJECTED"} THEN tokens[6] ELSE "CUSTOMER_REJECTED"
        r == InquiryService_OnMessage(st, Inquiry(inquiryId, productId, side, quantity.val, price.price, state), d)
    IN  IF ~QueryProductOk(productId) THEN [st |-> st, status |-> "invalid_argument", data |-> <<>>, inquiry |-> <<>>]
        ELSE IF ~quantity.ok \/ ~price.ok THEN [st |-> st, status |-> "invalid_argument", data |-> <<>>, inquiry |-> <<>>]
        ELSE [st |-> r.st, status |-> r.status, data |-> Inquiry(inquiryId, productId, side, quantity.val, price.price, state), inquiry |-> r.data]

(***************************************************************************)
(* Subscribe of each connector on a whole file: the lines are read in      *)
(* order until the file ends or a line fails.  A file is the sequence of    *)
(* its lines.                                                               *)
(***************************************************************************)
\* the while (getline) loop of PricingConnector::Subscribe
RECURSIVE PricingConnector_SubscribeLoop(_, _)
PricingConnector_SubscribeLoop(st, lines) ==
    IF lines = <<>> THEN [st |-> st, status |-> "ok"]
    ELSE LET r == PricingConnector_SubscribeLine(st, Head(lines))
         IN  IF r.status # "ok" \/ r.st.aborted THEN [st |-> r.st, status |-> r.status]
             ELSE PricingConnector_SubscribeLoop(r.st, Tail(lines))

\* PricingConnector::Subscribe: the first getline skips the header
PricingConnector_Subscribe(st, file) == PricingConnector_SubscribeLoop(st, IF file = <<>> THEN <<>> ELSE Tail(file))

\* what the uninitialised locals l give AlgoExecuteOrder on a book with both
\* sides quoted: nothing is read of them when the spread is tight
LocalsOutcome(book, l) == IF IsTight(BestBidOffer(book, NoIndet)) THEN NoIndet ELSE [NoIndet EXCEPT !.side = l.side, !.price = l.price, !.quantity = l.quantity]

\* a variant of the order-book loop that reads the lines from the last to the
\* first
RECURSIVE MarketDataConnector_SubscribeLoopBackwards(_, _, _, _, _)
MarketDataConnector_SubscribeLoopBackwards(st, lines, ord, ls, i) ==
    IF lines = <<>> THEN [st |-> st, status |-> "ok"]
    ELSE CHOOSE end \in {IF r.status # "ok" \/ r.st.aborted THEN [st |-> r.st, status |-> r.status]
                          ELSE MarketDataConnector_SubscribeLoopBackwards(r.st, SubSeq(lines, 1, Len(lines) - 1), ord, ls, i + 1) :
                              r \in {SubscribeDeliver(read, LocalsOutcome(read.aggregatedOrderBook, ls[i])) : read \in {SubscribeRead(st, lines[Len(lines)], ord)}}} : TRUE

\* the while (getline) loop of MarketDataConnector::Subscribe; ls[i] is what the
\* uninitialised locals hold at the i-th line of the file.  read is the line
\* up to the call of OnMessage, r the state after it, end the state when
\* Subscribe returns or throws.
RECURSIVE MarketDataConnector_SubscribeLoop(_, _, _, _, _)
MarketDataConnector_SubscribeLoop(st, lines, ord, ls, i) ==
    IF lines = <<>> THEN [st |-> st, status |-> "ok"]
    ELSE CHOOSE end \in {IF r.status # "ok" \/ r.st.aborted THEN [st |-> r.st, status |-> r.status]
                          ELSE MarketDataConnector_SubscribeLoop(r.st, Tail(lines), ord, ls, i + 1) :
                              r \in {SubscribeDeliver(read, LocalsOutcome(read.aggregatedOrderBook, ls[i])) : read \in {SubscribeRead(st, Head(lines), ord)}}} : TRUE

\* MarketDataConnector::Subscribe: the first getline skips the header
MarketDataConnector_Subscribe(st, file, ord, ls) == MarketDataConnector_SubscribeLoop(st, IF file = <<>> THEN <<>> ELSE Tail(file), ord, ls, 1)

\* TradeBookingConnector::Subscribe: every line of the file is parsed as a trade
RECURSIVE TradeBookingConnector_Subscribe(_, _, _)
TradeBookingConnector_Subscribe(st, file, g) ==
    IF file = <<>> THEN [st |-> st, status |-> "ok"]
    ELSE LET r == TradeBookingConnector_SubscribeLine(st, Head(file), g)
         IN  IF r.status # "ok" \/ r.st.aborted THEN [st |-> r.st, status |-> r.status]
             ELSE TradeBookingConnector_Subscribe(r.st, Tail(file), g)

\* InquiryConnector::Subscribe: every line of the file is parsed as an inquiry
RECURSIVE InquiryConnector_Subscribe(_, _, _)
InquiryConnector_Subscribe(st, file, d) ==
    IF file = <<>> THEN [st |-> st, status |-> "ok"]
    ELSE LET r == InquiryConnector_SubscribeLine(st, Head(file), d)
         IN  IF r.status # "ok" \/ r.st.aborted THEN [st |-> r.st, status |-> r.status]
             ELSE InquiryConnector_Subscribe(r.st, Tail(file), d)

(***************************************************************************)
(* The inputs of the model.                                                *)
(***************************************************************************)
\* the mid price 99-160 in 1/256ths
Mid == 99 * Unit + 128

\* a price without the dash
NoDash == <<"9", "9", "1", "6", "0">>

\* an order-book line whose bid price at the third level has no dash
BadFeedLines == {[GenOrderBookLine("9128283H1", Mid, 1) EXCEPT ![11] = NoDash]}

\* the order-book lines of the feed: two tight books two ticks apart and a wide
\* one for the first product, a tight one for the second, one for an unknown product
FeedLines ==
    {GenOrderBookLine("9128283H1", Mid, 1), GenOrderBookLine("9128283H1", Mid + 2, 1), GenOrderBookLine("9128283H1", Mid, 2),
     GenOrderBookLine("9128283L2", Mid, 1), GenOrderBookLine(UnknownCusip, Mid, 1)}
    \cup BadFeedLines

\* the books a caller hands to AlgoExecuteOrder directly: empty, one side empty,
\* a spread of exactly 1/128, a spread of 1/64
TriggerBooks ==
    {OrderBook("9128283H1", <<>>, <<>>), OrderBook("9128283H1", <<>>, <<Order(Mid + 1, LevelSize, "OFFER")>>)}
    \cup {OrderBook(c, <<Order(Mid - 1, LevelSize, "BID")>>, <<Order(Mid + 1, 2 * LevelSize, "OFFER")>>) : c \in Cusips}
    \cup {OrderBook(c, <<Order(Mid - 2, LevelSize, "BID")>>, <<Order(Mid + 2, 2 * LevelSize, "OFFER")>>) : c \in Cusips}

NoBook == OrderBook("", <<>>, <<>>)

\* lines of the price file: timestamp, CUSIP, bid, ask
PriceLine(product, bid, ask) == <<"timestamp", product, Price2Frac(bid), Price2Frac(ask)>>

\* genOrderBook writes the spread as a fifth field of a price line
GenPriceLine(product, bid, ask) == PriceLine(product, bid, ask) \o <<"0.0078125">>

\* price lines the connector cannot or should not take: an ask whose fraction has
\* four characters, and a line as genOrderBook writes it
BadPriceLines == {[PriceLine("9128283H1", Mid, Mid + 32) EXCEPT ![4] = Append(@, "0")], GenPriceLine("9128283L2", Mid, Mid + 2)}

PriceLines == {PriceLine("9128283H1", Mid, Mid + 32), PriceLine("9128283H1", Mid, Mid + 1), PriceLine("9128283L2", Mid, Mid + 32), PriceLine(UnknownCusip, Mid, Mid + 32)} \cup BadPriceLines

\* lines of the trade file: CUSIP, trade id, price, book, quantity, side
TradeLine(product, tradeId, price, book, quantity, side) == <<product, tradeId, Price2Frac(price), book, to_string(quantity), side>>

\* trade lines the connector cannot or should not take: a price without the
\* dash, a seventh field, no side, a quantity followed by a letter
BadTradeLines ==
    {[TradeLine("9128283H1", "T4", Mid, "TRSY1", 10, "BUY") EXCEPT ![3] = NoDash],
     TradeLine("9128283L2", "T5", Mid, "TRSY3", 10, "SELL") \o <<"x">>,
     SubSeq(TradeLine("9128283L2", "T6", Mid, "TRSY3", 10, "SELL"), 1, 5),
     [TradeLine("9128283L2", "T7", Mid, "TRSY3", 10, "SELL") EXCEPT ![5] = <<"1", "0", "x">>]}

TradeLines ==
    {TradeLine("9128283H1", "T1", Mid, "TRSY1", 100, "BUY"), TradeLine("9128283H1", "T1", Mid, "TRSY2", 40, "SELL"),
     TradeLine("9128283L2", "T2", Mid, "TRSY1", 10, "BUY"), TradeLine("9128283H1", "T3", Mid, "TRSY1", 10, "BUY")}
    \cup BadTradeLines

\* lines of the inquiry file: inquiry id, CUSIP, side, quantity, price, state
InquiryLine(inquiryId, product, side, quantity, price, state) == <<inquiryId, product, side, to_string(quantity), Price2Frac(price), state>>

InquiryLines == {InquiryLine("I1", "9128283H1", "BUY", 100, Mid, state) : state \in {"RECEIVED", "QUOTED", "DONE", "REJECTED", "CUSTOMER_REJECTED"}}

\* the keys the queries ask for
ProductKeys == {"9128283H1", UnknownCusip}

TradeKeys == {"T1", "T9"}

InquiryKeys == {"I1"}

\* raw stacks, before aggregation: entries at two prices, in any order, prices
\* repeated
RECURSIVE SeqsUpTo(_, _)
SeqsUpTo(S, n) == IF n = 0 THEN {<<>>} ELSE SeqsUpTo(S, n - 1) \cup {Append(q, x) : q \in {r \in SeqsUpTo(S, n - 1) : Len(r) = n - 1}, x \in S}

RawBidStacks == SeqsUpTo({Order(p, q, "BID") : p \in {Mid - 2, Mid - 1}, q \in {LevelSize, 2 * LevelSize}}, MaxRaw)

RawOfferStacks == {<<>>, <<Order(Mid + 1, LevelSize, "OFFER")>>, <<Order(Mid + 2, LevelSize, "OFFER"), Order(Mid + 1, LevelSize, "OFFER"), Order(Mid + 2, 2 * LevelSize, "OFFER")>>}

\* the header lines genOrderBook writes, and the same for the formats of the
\* trade and inquiry files
PriceHeader == <<"Timestamp", "CUSIP", "Bid", "Ask">>

OrderBookHeader == <<"Timestamp", "CUSIP">> \o [i \in 1..(4 * BookDepth) |-> "Level"]

TradeHeader == <<"CUSIP", "TradeId", <<"P", "r", "i", "c", "e">>, "Book", <<"Q", "u", "a", "n", "t", "i", "t", "y">>, "Side">>

InquiryHeader == <<"InquiryId", "CUSIP", "Side", <<"Q", "u", "a", "n", "t", "i", "t", "y">>, <<"P", "r", "i", "c", "e">>, "State">>

\* the files of the model: a header and up to MaxFileRecords records; the trade
\* and inquiry files also as genTrades and genInquiries write them, without a
\* header
PriceFiles == {<<PriceHeader>> \o recs : recs \in SeqsUpTo({PriceLine("9128283H1", Mid, Mid + 32), PriceLine("9128283H1", Mid, Mid + 1), PriceLine("9128283L2", Mid, Mid + 32)}, MaxFileRecords)}

OrderBookFiles ==
    {<<OrderBookHeader>> \o recs : recs \in SeqsUpTo({GenOrderBookLine("9128283H1", Mid, 1), GenOrderBookLine("9128283H1", Mid + 2, 1), GenOrderBookLine("9128283H1", Mid, 2),
                                                        GenOrderBookLine("9128283L2", Mid, 1)}, MaxFileRecords)}

TradeRecords ==
    SeqsUpTo({TradeLine("9128283H1", "T1", Mid, "TRSY1", 100, "BUY"), TradeLine("9128283H1", "T3", Mid, "TRSY1", 10, "BUY"),
              TradeLine("9128283L2", "T2", Mid, "TRSY1", 10, "BUY"), TradeLine("9128283H1", "T8", Mid, "TRSY2", 40, "SELL")}, MaxFileRecords)

TradeFiles == TradeRecords \cup {<<TradeHeader>> \o recs : recs \in TradeRecords}

InquiryRecords == SeqsUpTo({InquiryLine("I1", "9128283H1", "BUY", 100, Mid, "QUOTED"), InquiryLine("I2", "9128283L2", "SELL", 100, Mid, "QUOTED")}, MaxFileRecords)

InquiryFiles == InquiryRecords \cup {<<InquiryHeader>> \o recs : recs \in InquiryRecords}

(***************************************************************************)
(* The state after construction (main.cpp lines 64-99).                    *)
(***************************************************************************)
\* every service but the order-book engine, after construction
\* prices given to Price2Frac, in 1/256ths: the multiples of 1/256 from 0 and
\* from 99, where genOrderBook starts
CodecPrices == (0..(MaxPoints * Unit)) \cup ((99 * Unit)..((99 + MaxPoints) * Unit))

\* the characters of the 256ths place: a digit or '+'
ZChars == {DigitChars[d] : d \in 1..10} \cup {"+"}

\* texts of the shape I-XYz: I a run of digits, XY two digits, z a digit or '+'
CodecIntParts == {to_string(i) : i \in (0..MaxPoints) \cup {99, 100}} \cup {<<"0", "7">>}
CodecStringsXYz == {i \o <<"-", x, y, z>> : i \in CodecIntParts, x \in {"0", "1", "3", "9"}, y \in {"0", "1", "6", "9"}, z \in ZChars}

\* texts Frac2Price is to refuse: no dash, or a fractional part that is not of
\* 3 characters
CodecStringsBad ==
    {<<>>, <<"9", "9">>, <<"9", "9", "1", "6", "0">>, <<"9", "9", "+", "1", "6", "0">>}
    \cup {<<"9", "9", "-">> \o f : f \in {<<>>, <<"1">>, <<"1", "6">>, <<"1", "6", "+">> \o <<"0">>, <<"1", "6", "0", "0">>, <<"1", "-", "6", "0">>, <<"1", "6", "-", "0", "0", "0">>}}
    \cup {<<"-", "1", "6", "0", "0">>, <<"-">>}

CodecStrings == CodecStringsXYz \cup CodecStringsBad

ConstructedButMarketData ==
    /\ priceData = EmptyMap
    /\ algoExecutionData = EmptyMap
    /\ count = 0
    /\ randCalls = 0
    /\ executionData = EmptyMap
    /\ tradeData = EmptyMap
    /\ listenerCount = 0
    /\ positionData = EmptyMap
    /\ riskData = EmptyMap
    /\ inquiryData = EmptyMap
    /\ aborted = FALSE
    /\ events = <<>>
    /\ lastOp = [op |-> "none", key |-> "", status |-> "ok", triggered |-> FALSE, book |-> NoBook, arg |-> <<>>, result |-> <<>>, data |-> <<>>]
    /\ lastQualSide = "NONE"

Constructed == orderBookMap = EmptyMap /\ ConstructedButMarketData

Init == Constructed /\ opsLeft = MaxOps

InitAlgo == Constructed /\ opsLeft = MaxTriggers

\* trade booking and positions alone
InitTrades == Constructed /\ opsLeft = MaxTrades

\* the connectors alone
InitFeeds == Constructed /\ opsLeft = SubscribeCalls

\* the codec alone
InitCodec == Constructed /\ opsLeft = MaxCodecCalls

\* the order-book engine with a raw book stored, as the connector's loop leaves
\* it before it calls AggregateDepth
InitAgg ==
    /\ ConstructedButMarketData
    /\ \E b \in RawBidStacks, o \in RawOfferStacks : orderBookMap = Put(EmptyMap, "9128283H1", OrderBook("9128283H1", b, o))
    /\ opsLeft = MaxAggregations

\* the process is alive and the run has operations left
Running == ~aborted /\ opsLeft > 0

\* the services' state after an operation
Stored(st) ==
    /\ priceData' = st.priceData
    /\ orderBookMap' = st.orderBookMap
    /\ algoExecutionData' = st.algoExecutionData
    /\ count' = st.count
    /\ randCalls' = st.randCalls
    /\ executionData' = st.executionData
    /\ tradeData' = st.tradeData
    /\ listenerCount' = st.listenerCount
    /\ positionData' = st.positionData
    /\ riskData' = st.riskData
    /\ inquiryData' = st.inquiryData
    /\ aborted' = st.aborted
    /\ events' = st.events

\* an operation of a bounded run has ended
Commit(st) == Stored(st) /\ opsLeft' = opsLeft - 1

\* main calls each connector's Subscribe once and handles no exception: one
\* that leaves Subscribe ends the process
Thrown(st, status) == IF status \in {"ok", "crash"} THEN st ELSE [st EXCEPT !.aborted = TRUE]

\* an operation that is not a decisioning trigger has run
Done(st, op, key, status, arg, result, data) ==
    /\ Commit(st)
    /\ lastOp' = [op |-> op, key |-> key, status |-> status, triggered |-> FALSE, book |-> NoBook, arg |-> arg, result |-> result, data |-> data]
    /\ UNCHANGED lastQualSide

\* a trigger qualifies when both sides are quoted and the spread test passes
Qualifies(book) == book.bidStack # <<>> /\ book.offerStack # <<>> /\ IsTight(BestBidOffer(book, NoIndet))

\* the side of the last qualifying trigger, after a trigger on book that left st
QualSideAfter(book, st) == IF Qualifies(book) THEN st.algoExecutionData[book.product].executionOrder.side ELSE lastQualSide

(***************************************************************************)
(* The operations.                                                         *)
(***************************************************************************)
\* the connector reads one line of the order-book file
MarketDataSubscribe ==
    /\ Running
    /\ \E line \in FeedLines, ord \in HashOrders :
         \E read \in {SubscribeRead(State, line, ord)} :
           \E u \in (IF read.status = "ok" THEN Outcomes(read.aggregatedOrderBook) ELSE {NoIndet}) :
             \E r \in {SubscribeDeliver(read, u)} :
               /\ Commit(Thrown(r.st, r.status))
               /\ lastOp' = [op |-> "MarketDataSubscribe", key |-> line[2], status |-> IF r.st.aborted THEN "crash" ELSE r.status, triggered |-> r.status = "ok", book |-> read.aggregatedOrderBook, arg |-> line, result |-> <<>>, data |-> IF r.status = "ok" THEN read.aggregatedOrderBook ELSE <<>>]
               /\ lastQualSide' = IF r.status = "ok" /\ ~r.st.aborted THEN QualSideAfter(read.aggregatedOrderBook, r.st) ELSE lastQualSide

\* a caller invokes AlgoExecutionService::AlgoExecuteOrder with a book
AlgoExecuteOrderCall ==
    /\ Running
    /\ \E book \in TriggerBooks :
         \E u \in Outcomes(book) :
           \E st \in {AlgoExecuteOrder(State, book, u)} :
             /\ Commit(st)
             /\ lastOp' = [op |-> "AlgoExecuteOrder", key |-> book.product, status |-> IF st.aborted THEN "crash" ELSE "ok", triggered |-> TRUE, book |-> book, arg |-> <<>>, result |-> <<>>, data |-> <<>>]
             /\ lastQualSide' = IF st.aborted THEN lastQualSide ELSE QualSideAfter(book, st)

\* a trigger of a feed that does not end.  Of count the code reads the parity
\* alone (count % 2), of the trade-booking listener's counter its remainder by 3,
\* and an order id only names its order: they are kept within a cycle so that
\* the run can go on for ever.  The position and risk sums grow without bound
\* and the decisioning reads none of them: they stay as constructed.
AlgoExecuteOrderEndless ==
    /\ ~aborted
    /\ \E book \in TriggerBooks :
         \E u \in Outcomes(book) :
           \E st \in {AlgoExecuteOrder(State, book, u)} :
             /\ Stored([st EXCEPT !.count = @ % CountCycle, !.randCalls = @ % MaxIds, !.listenerCount = @ % BookCycle,
                                   !.positionData = positionData, !.riskData = riskData])
             /\ lastOp' = [op |-> "AlgoExecuteOrder", key |-> book.product, status |-> IF st.aborted THEN "crash" ELSE "ok", triggered |-> TRUE, book |-> book, arg |-> <<>>, result |-> <<>>, data |-> <<>>]
             /\ lastQualSide' = IF st.aborted THEN lastQualSide ELSE QualSideAfter(book, st)
             /\ UNCHANGED opsLeft

\* the connector reads one line of the price file
PricingSubscribe ==
    /\ Running
    /\ \E line \in PriceLines :
         \E r \in {PricingConnector_SubscribeLine(State, line)} :
           Done(Thrown(r.st, r.status), "PricingSubscribe", line[2], r.status, line, <<>>, r.data)

\* the connector reads one line of the trade file
TradeBookingSubscribe ==
    /\ Running
    /\ \E line \in TradeLines, g \in OutOfRangeReads :
         \E r \in {TradeBookingConnector_SubscribeLine(State, line, g)} :
           Done(Thrown(r.st, r.status), "TradeBookingSubscribe", line[2], r.status, line, <<>>, r.data)

\* the connector reads one line of the inquiry file
InquirySubscribe ==
    /\ Running
    /\ \E line \in InquiryLines, d \in DefaultOutcomes :
         \E r \in {InquiryConnector_SubscribeLine(State, line, d)} :
           Done(Thrown(r.st, r.status), "InquirySubscribe", line[1], r.status, line, r.inquiry, r.data)

\* a caller asks a service for the value of a key
PricingGetData ==
    /\ Running
    /\ \E key \in ProductKeys :
         \E r \in {PricingService_GetData(State, key)} :
           Done(r.st, "PricingGetData", key, r.status, <<>>, r.value, <<>>)

AlgoExecutionGetData ==
    /\ Running
    /\ \E key \in ProductKeys :
         \E r \in {AlgoExecutionService_GetData(State, key)} :
           Done(r.st, "AlgoExecutionGetData", key, r.status, <<>>, r.value, <<>>)

TradeBookingGetData ==
    /\ Running
    /\ \E key \in TradeKeys :
         \E r \in {TradeBookingService_GetData(State, key)} :
           Done(r.st, "TradeBookingGetData", key, r.status, <<>>, r.value, <<>>)

PositionGetData ==
    /\ Running
    /\ \E key \in ProductKeys :
         \E r \in {PositionService_GetData(State, key)} :
           Done(r.st, "PositionGetData", key, r.status, <<>>, r.value, <<>>)

InquiryGetData ==
    /\ Running
    /\ \E key \in InquiryKeys :
         \E r \in {InquiryService_GetData(State, key)} :
           Done(r.st, "InquiryGetData", key, r.status, <<>>, r.value, <<>>)

MarketDataGetData ==
    /\ Running
    /\ \E key \in ProductKeys :
         \E r \in {MarketDataService_GetData(State, key)} :
           Done(r.st, "MarketDataGetData", key, IF r.ok THEN "ok" ELSE "invalid_argument", <<>>, IF r.ok THEN r.st.orderBookMap[key] ELSE <<>>, <<>>)

\* a caller asks the market data service for the best bid and offer of a product
MarketDataBestBidOffer ==
    /\ Running
    /\ \E productId \in ProductKeys :
         \E d \in (IF Has(orderBookMap, productId) THEN {"constructed"} ELSE DefaultOutcomes) :
           \E u \in (IF Has(orderBookMap, productId) THEN Outcomes(orderBookMap[productId]) ELSE IF d = "constructed" THEN Outcomes(NoBook) ELSE {NoIndet}) :
             \E r \in {MarketDataService_BestBidOffer(State, productId, d, u)} :
               Done(r.st, "MarketDataBestBidOffer", productId, r.status,
                    IF Has(orderBookMap, productId) THEN <<orderBookMap[productId]>> ELSE <<>>,
                    IF r.status = "ok" THEN <<BestBidOffer(r.st.orderBookMap[productId], u)>> ELSE <<>>, <<>>)

\* a caller asks the market data service to aggregate the book of a product
MarketDataAggregateDepth ==
    /\ Running
    /\ \E productId \in ProductKeys, ord \in HashOrders :
         \E d \in (IF Has(orderBookMap, productId) THEN {"constructed"} ELSE DefaultOutcomes) :
           \E r \in {AggregateDepth(State, productId, ord, d)} :
             Done(r.st, "MarketDataAggregateDepth", productId, r.status, IF Has(orderBookMap, productId) THEN <<orderBookMap[productId]>> ELSE <<>>, <<>>, <<>>)

\* a trader quotes or rejects an inquiry
InquirySendQuote ==
    /\ Running
    /\ \E inquiryId \in InquiryKeys :
         \E d \in (IF Has(inquiryData, inquiryId) THEN {"constructed"} ELSE DefaultOutcomes) :
           \E r \in {SendQuote(State, inquiryId, Mid, d)} :
             Done(r.st, "InquirySendQuote", inquiryId, r.status, <<>>, <<>>, <<>>)

InquiryRejectInquiry ==
    /\ Running
    /\ \E inquiryId \in InquiryKeys :
         \E d \in (IF Has(inquiryData, inquiryId) THEN {"constructed"} ELSE DefaultOutcomes) :
           \E r \in {RejectInquiry(State, inquiryId, d)} :
             Done(r.st, "InquiryRejectInquiry", inquiryId, r.status, <<>>, <<>>, <<>>)

\* a run of the codec alone starts from a text or a price given to it and goes
\* on with what the last call returned
\* a caller decodes a text
Frac2PriceCall ==
    /\ Running /\ lastOp.op = "none"
    /\ \E PriceFrac \in CodecStrings :
         \E r \in {Frac2Price(PriceFrac)} :
           Done(State, "Frac2Price", "", IF r.ok THEN "ok" ELSE "invalid_argument", PriceFrac, r, <<>>)

\* a caller encodes a price
Price2FracCall ==
    /\ Running /\ lastOp.op = "none"
    /\ \E price \in CodecPrices :
         Done(State, "Price2Frac", "", "ok", price, Price2Frac(price), <<>>)

\* a caller encodes the price that Frac2Price has just returned; data keeps the
\* text that was decoded
Price2FracOfDecoded ==
    /\ Running
    /\ lastOp.op = "Frac2Price" /\ lastOp.status = "ok"
    /\ Done(State, "Price2Frac", "decoded", "ok", lastOp.result.price, Price2Frac(lastOp.result.price), lastOp.arg)

\* a caller decodes the text that Price2Frac has just returned; data keeps the
\* price that was encoded
Frac2PriceOfEncoded ==
    /\ Running
    /\ lastOp.op = "Price2Frac"
    /\ \E r \in {Frac2Price(lastOp.result)} :
         Done(State, "Frac2Price", "encoded", IF r.ok THEN "ok" ELSE "invalid_argument", lastOp.result, r, lastOp.arg)

\* main calls Subscribe of a connector on a file
PricingSubscribeFile ==
    /\ Running
    /\ \E file \in PriceFiles :
         \E r \in {PricingConnector_Subscribe(State, file)} :
           Done(Thrown(r.st, r.status), "PricingSubscribeFile", "", r.status, file, <<>>, <<>>)

MarketDataSubscribeFile ==
    /\ Running
    /\ \E file \in OrderBookFiles, ord \in HashOrders, ls \in [1..MaxFileRecords -> IndetLocals] :
         \E r \in {MarketDataConnector_Subscribe(State, file, ord, ls)} :
           Done(Thrown(r.st, r.status), "MarketDataSubscribeFile", "", r.status, file, <<>>, <<>>)

TradeBookingSubscribeFile ==
    /\ Running
    /\ \E file \in TradeFiles :
         \E r \in {TradeBookingConnector_Subscribe(State, file, "")} :
           Done(Thrown(r.st, r.status), "TradeBookingSubscribeFile", "", r.status, file, <<>>, <<>>)

InquirySubscribeFile ==
    /\ Running
    /\ \E file \in InquiryFiles, d \in DefaultOutcomes :
         \E r \in {InquiryConnector_Subscribe(State, file, d)} :
           Done(Thrown(r.st, r.status), "InquirySubscribeFile", "", r.status, file, <<>>, <<>>)

Next ==
    \/ MarketDataSubscribe
    \/ AlgoExecuteOrderCall
    \/ PricingSubscribe
    \/ TradeBookingSubscribe
    \/ InquirySubscribe
    \/ PricingGetData
    \/ AlgoExecutionGetData
    \/ TradeBookingGetData
    \/ PositionGetData
    \/ InquiryGetData
    \/ MarketDataGetData
    \/ MarketDataBestBidOffer
    \/ MarketDataAggregateDepth
    \/ InquirySendQuote
    \/ InquiryRejectInquiry

Spec == Init /\ [][Next]_vars

\* the decisioning alone: a caller triggering AlgoExecuteOrder
NextAlgo == AlgoExecuteOrderCall

SpecAlgo == InitAlgo /\ [][NextAlgo]_vars

\* the decisioning layer under a feed that does not end
NextLive == AlgoExecuteOrderEndless

\* the step of NextLive that returns: a trigger that moved count on.  It can be
\* taken whenever the process is alive.
TriggerReturned == ~aborted /\ count' = (count + 1) % CountCycle

\* the connector's loop calls the listener for every record and nothing makes it
\* wait: while the process is alive, the next trigger does happen
SpecLive == InitAlgo /\ [][NextLive]_vars /\ WF_count(TriggerReturned)

\* the codec alone: texts are decoded, prices encoded, and each result given to
\* the other function
NextCodec == Frac2PriceCall \/ Price2FracCall \/ Price2FracOfDecoded \/ Frac2PriceOfEncoded

SpecCodec == InitCodec /\ [][NextCodec]_vars

\* the order-book engine alone: a caller aggregating the stored books and asking
\* for their best bid and offer
NextAgg == MarketDataAggregateDepth \/ MarketDataBestBidOffer

SpecAgg == InitAgg /\ [][NextAgg]_vars

\* trade booking and positions alone: the trade file is read and positions are
\* queried
NextTrades == TradeBookingSubscribe \/ PositionGetData

SpecTrades == InitTrades /\ [][NextTrades]_vars

\* the connectors alone: Subscribe on whole files
NextFeeds == PricingSubscribeFile \/ MarketDataSubscribeFile \/ TradeBookingSubscribeFile \/ InquirySubscribeFile

SpecFeeds == InitFeeds /\ [][NextFeeds]_vars

(***************************************************************************)
(* Properties.                                                             *)
(***************************************************************************)
Range(s) == {s[i] : i \in 1..Len(s)}

\* the callbacks of service svc entered during an operation, in order
CallsIn(evs, svc) == SelectSeq(evs, LAMBDA e : e.ev = "call" /\ e.svc = svc)

\* the levels one side of an order-book record carries, duplicate prices summed
RecordStack(splitdata, side) ==
    [i \in 1..BookDepth |-> Order(Frac2Price(splitdata[4 * (i - 1) + (IF side = "BID" THEN 3 ELSE 5)]).price, Stol(splitdata[4 * (i - 1) + (IF side = "BID" THEN 4 ELSE 6)]).val, side)]

RecordLevels(splitdata, side) == Range(AggregateStack(RecordStack(splitdata, side), side, "ascending"))

\* book holds exactly the levels of the record
IsSnapshotOf(book, splitdata) ==
    /\ Range(book.bidStack) = RecordLevels(splitdata, "BID")
    /\ Range(book.offerStack) = RecordLevels(splitdata, "OFFER")

\* both sides of the book are quoted
Quoted(book) == book.bidStack # <<>> /\ book.offerStack # <<>>

\* best offer price minus best bid price of a quoted book
SpreadOf(book) == BestBidOffer(book, NoIndet).offerOrder.price - BestBidOffer(book, NoIndet).bidOrder.price

\* C1: after an order-book record has been read, the book stored for its
\* instrument and the book published to the listeners hold exactly the
\* aggregated levels of that record, nothing of an earlier record.
C1_Snapshot ==
    (lastOp.op = "MarketDataSubscribe" /\ lastOp.status = "ok") =>
        /\ IsSnapshotOf(orderBookMap[lastOp.key], lastOp.arg)
        /\ \A i \in 1..Len(CallsIn(events, "MarketDataService")) : IsSnapshotOf(CallsIn(events, "MarketDataService")[i].data, lastOp.arg)

\* C2: a trigger on a book whose spread is greater than 1/128 notifies no
\* listener of the algo-execution service and leaves the instrument's entry of
\* the algo-execution store as it was.
C2_NoIntentWhenWide ==
    [][(lastOp'.triggered /\ Quoted(lastOp'.book) /\ SpreadOf(lastOp'.book) > TightSpread) =>
          /\ CallsIn(events', "AlgoExecutionService") = <<>>
          /\ Has(algoExecutionData', lastOp'.key) = Has(algoExecutionData, lastOp'.key)
          /\ Has(algoExecutionData, lastOp'.key) => algoExecutionData'[lastOp'.key] = algoExecutionData[lastOp'.key]]_vars

\* C3: a trigger whose spread is at most 1/128 notifies each listener of the
\* algo-execution service exactly once, with a MARKET order that hides no
\* quantity and is not a child order.
C3_OneMarketIntent ==
    (lastOp.triggered /\ lastOp.status = "ok" /\ Quoted(lastOp.book) /\ SpreadOf(lastOp.book) <= TightSpread) =>
        /\ \A i \in 1..Len(AlgoExecutionListeners) : Cardinality({j \in 1..Len(events) : events[j].ev = "call" /\ events[j].svc = "AlgoExecutionService" /\ events[j].listener = AlgoExecutionListeners[i]}) = 1
        /\ Len(CallsIn(events, "AlgoExecutionService")) = Len(AlgoExecutionListeners)
        /\ \A j \in 1..Len(CallsIn(events, "AlgoExecutionService")) :
             LET o == CallsIn(events, "AlgoExecutionService")[j].data.executionOrder
             IN  o.orderType = "MARKET" /\ o.hiddenQuantity = 0 /\ o.isChildOrder = FALSE

\* a trigger at a spread of exactly 1/128 has notified the listener
C3_Witness ==
    /\ lastOp.triggered /\ lastOp.status = "ok" /\ Quoted(lastOp.book) /\ SpreadOf(lastOp.book) = TightSpread
    /\ Len(CallsIn(events, "AlgoExecutionService")) = 1

\* C4: two consecutive qualifying triggers emit intents on opposite sides.
C4_Alternation ==
    [][(lastOp'.triggered /\ lastOp'.status = "ok" /\ Quoted(lastOp'.book) /\ SpreadOf(lastOp'.book) <= TightSpread /\ lastQualSide # "NONE") =>
          lastQualSide' # lastQualSide]_vars

\* C5: on a qualifying trigger with an even counter the intent is a BID at the
\* best offer price for the best bid's quantity; with an odd counter an OFFER
\* at the best bid price for the best offer's quantity.
C5_SideSelection ==
    [][(lastOp'.triggered /\ lastOp'.status = "ok" /\ Quoted(lastOp'.book) /\ SpreadOf(lastOp'.book) <= TightSpread) =>
          LET bo == BestBidOffer(lastOp'.book, NoIndet)
              o == CallsIn(events', "AlgoExecutionService")[1].data.executionOrder
          IN  IF count % 2 = 0
              THEN o.side = "BID" /\ o.price = bo.offerOrder.price /\ o.visibleQuantity = bo.bidOrder.quantity
              ELSE o.side = "OFFER" /\ o.price = bo.bidOrder.price /\ o.visibleQuantity = bo.offerOrder.quantity]_vars

\* a qualifying trigger met an odd counter and sold at the best bid
C5_Witness ==
    /\ lastOp.triggered /\ lastOp.status = "ok" /\ Quoted(lastOp.book) /\ SpreadOf(lastOp.book) <= TightSpread
    /\ count = 2
    /\ CallsIn(events, "AlgoExecutionService")[1].data.executionOrder.side = "OFFER"
    /\ CallsIn(events, "AlgoExecutionService")[1].data.executionOrder.price = BestBidOffer(lastOp.book, NoIndet).bidOrder.price

\* C6: a trigger on a book with an empty bid or offer stack emits no intent,
\* changes no store and does not abort the run.
C6_EmptyBookNoSignal ==
    [][(lastOp'.triggered /\ ~Quoted(lastOp'.book)) =>
          /\ ~aborted'
          /\ CallsIn(events', "AlgoExecutionService") = <<>>
          /\ algoExecutionData' = algoExecutionData
          /\ executionData' = executionData
          /\ positionData' = positionData]_vars

\* the listeners of a service, in the order main adds them
ListenersOf(svc) ==
    CASE svc = "PricingService" -> PricingListeners
      [] svc = "MarketDataService" -> MarketDataListeners
      [] svc = "AlgoExecutionService" -> AlgoExecutionListeners
      [] svc = "ExecutionService" -> ExecutionListeners
      [] svc = "TradeBookingService" -> TradeBookingListeners
      [] svc = "PositionService" -> PositionListeners
      [] svc = "RiskService" -> RiskListeners
      [] OTHER -> InquiryListeners

\* service svc has called each of its listeners once with data, in the order of
\* registration
NotifiedInOrder(evs, svc, data) ==
    /\ [i \in 1..Len(CallsIn(evs, svc)) |-> CallsIn(evs, svc)[i].listener] = ListenersOf(svc)
    /\ \A i \in 1..Len(CallsIn(evs, svc)) : CallsIn(evs, svc)[i].data = data

\* every callback entered has returned
AllReturned(evs) == Len(SelectSeq(evs, LAMBDA e : e.ev = "call")) = Len(SelectSeq(evs, LAMBDA e : e.ev = "ret"))

\* C7: OnMessage(v) of the pricing, market data and trade booking services
\* stores v under its key, replacing what was there, so that GetData(key)
\* returns v, and calls every listener once, in registration order, before it
\* returns.
C7_OnMessage ==
    /\ (lastOp.op = "PricingSubscribe" /\ lastOp.status = "ok") =>
         /\ PricingService_GetData(State, lastOp.data.product).status = "ok"
         /\ PricingService_GetData(State, lastOp.data.product).value = lastOp.data
         /\ NotifiedInOrder(events, "PricingService", lastOp.data)
         /\ AllReturned(events)
    /\ (lastOp.op = "MarketDataSubscribe" /\ lastOp.status = "ok") =>
         /\ MarketDataService_GetData(State, lastOp.data.product).ok
         /\ MarketDataService_GetData(State, lastOp.data.product).st.orderBookMap[lastOp.data.product] = lastOp.data
         /\ NotifiedInOrder(events, "MarketDataService", lastOp.data)
         /\ AllReturned(events)
    /\ (lastOp.op = "TradeBookingSubscribe" /\ lastOp.status = "ok") =>
         /\ TradeBookingService_GetData(State, lastOp.data.tradeId).status = "ok"
         /\ TradeBookingService_GetData(State, lastOp.data.tradeId).value = lastOp.data
         /\ NotifiedInOrder(events, "TradeBookingService", lastOp.data)
         /\ AllReturned(events)

\* the second operation of a run has stored a price and both pricing listeners
\* have been called with it
C7_Witness ==
    /\ lastOp.op = "PricingSubscribe" /\ lastOp.status = "ok"
    /\ lastOp.data.bidOfferSpread = 1
    /\ opsLeft = MaxOps - 2
    /\ priceData[lastOp.key] = lastOp.data
    /\ Len(CallsIn(events, "PricingService")) = 2

\* the callbacks are properly nested: a callback returns after everything it
\* has called has returned
RECURSIVE Nested(_, _)
Nested(evs, stack) ==
    IF evs = <<>> THEN stack = <<>>
    ELSE IF Head(evs).ev = "call" THEN Nested(Tail(evs), <<Head(evs)>> \o stack)
    ELSE IF Head(evs).ev # "ret" THEN Nested(Tail(evs), stack)
    ELSE stack # <<>> /\ Head(stack) = [Head(evs) EXCEPT !.ev = "call"] /\ Nested(Tail(evs), Tail(stack))

\* listener l of service svc has returned before position j
ReturnedBefore(evs, j, svc, l) == \E i \in 1..(j - 1) : evs[i].ev = "ret" /\ evs[i].svc = svc /\ evs[i].listener = l

\* C8: delivery is depth-first: a listener is called right after the listener
\* registered before it has returned, and callbacks are properly nested.  With
\* the wiring of main the risk chain of a trade is over before the historical
\* position listener is called, and the booking, position and risk chain of an
\* execution is over before the historical execution listener is called.
C8_DepthFirst ==
    ~aborted =>
        /\ Nested(events, <<>>)
        /\ \A j \in 1..Len(events) :
             (events[j].ev = "call" /\ events[j].listener # ListenersOf(events[j].svc)[1]) =>
                 /\ j > 1
                 /\ events[j - 1].ev = "ret" /\ events[j - 1].svc = events[j].svc /\ events[j - 1].data = events[j].data
                 /\ \E k \in 2..Len(ListenersOf(events[j].svc)) : ListenersOf(events[j].svc)[k] = events[j].listener /\ ListenersOf(events[j].svc)[k - 1] = events[j - 1].listener
        /\ \A j \in 1..Len(events) :
             (events[j].ev = "call" /\ events[j].svc = "PositionService" /\ events[j].listener = "HistoricalPositionListener") =>
                 /\ ReturnedBefore(events, j, "PositionService", "RiskServiceListener")
                 /\ ReturnedBefore(events, j, "RiskService", "HistoricalRiskListener")
        /\ \A j \in 1..Len(events) :
             (events[j].ev = "call" /\ events[j].svc = "ExecutionService" /\ events[j].listener = "HistoricalExecutionListener") =>
                 /\ ReturnedBefore(events, j, "ExecutionService", "TradeBookingServiceListener")
                 /\ ReturnedBefore(events, j, "TradeBookingService", "PositionServiceListener")
                 /\ ReturnedBefore(events, j, "PositionService", "RiskServiceListener")
                 /\ ReturnedBefore(events, j, "RiskService", "HistoricalRiskListener")
                 /\ ReturnedBefore(events, j, "PositionService", "HistoricalPositionListener")

\* an execution has gone through booking, position and risk and then reached
\* the historical execution listener
C8_Witness ==
    /\ ~aborted
    /\ \E j \in 1..Len(events) : events[j].ev = "call" /\ events[j].svc = "ExecutionService" /\ events[j].listener = "HistoricalExecutionListener" /\ ReturnedBefore(events, j, "RiskService", "HistoricalRiskListener")

\* what GetData of a store gives for a key: the status and the value
Lookup(store, key) == IF Has(store, key) THEN [status |-> "ok", value |-> store[key]] ELSE [status |-> "Key not found", value |-> <<>>]

\* C9: GetData(key) of the pricing, algo-execution, trade booking, position and
\* inquiry services fails with not-found when the key is absent, returns the
\* stored value when it is present, and leaves the store unchanged.
C9_GetData ==
    [][/\ lastOp'.op = "PricingGetData" => ([status |-> lastOp'.status, value |-> lastOp'.result] = Lookup(priceData, lastOp'.key) /\ priceData' = priceData)
       /\ lastOp'.op = "AlgoExecutionGetData" => ([status |-> lastOp'.status, value |-> lastOp'.result] = Lookup(algoExecutionData, lastOp'.key) /\ algoExecutionData' = algoExecutionData)
       /\ lastOp'.op = "TradeBookingGetData" => ([status |-> lastOp'.status, value |-> lastOp'.result] = Lookup(tradeData, lastOp'.key) /\ tradeData' = tradeData)
       /\ lastOp'.op = "PositionGetData" => ([status |-> lastOp'.status, value |-> lastOp'.result] = Lookup(positionData, lastOp'.key) /\ positionData' = positionData)
       /\ lastOp'.op = "InquiryGetData" => ([status |-> lastOp'.status, value |-> lastOp'.result] = Lookup(inquiryData, lastOp'.key) /\ inquiryData' = inquiryData)]_vars

\* GetData of the position service has failed for an instrument without trades
C9_Witness ==
    /\ lastOp.op = "PositionGetData" /\ lastOp.status = "Key not found"
    /\ lastOp.key = "9128283H1"
    /\ ~Has(positionData, lastOp.key)
    /\ tradeData # EmptyMap

\* C10: GetData, BestBidOffer and AggregateDepth of the market data service
\* for an instrument without a stored book, and SendQuote and RejectInquiry
\* for an unknown inquiry id, report an error to the caller and insert nothing.
C10_NoSilentDefault ==
    [][/\ (lastOp'.op \in {"MarketDataGetData", "MarketDataBestBidOffer", "MarketDataAggregateDepth"} /\ ~Has(orderBookMap, lastOp'.key)) =>
            (lastOp'.status \notin {"ok", "crash"} /\ orderBookMap' = orderBookMap)
       /\ (lastOp'.op \in {"InquirySendQuote", "InquiryRejectInquiry"} /\ ~Has(inquiryData, lastOp'.key)) =>
            (lastOp'.status \notin {"ok", "crash"} /\ inquiryData' = inquiryData)]_vars

\* C11: the keyed store of a service with an inbound connector changes only
\* inside OnMessage: GetData, BestBidOffer, AggregateDepth, SendQuote,
\* RejectInquiry and a connector step that does not reach OnMessage leave it
\* as it was.
C11_OnlyOnMessageMutates ==
    [][/\ lastOp'.op \in {"MarketDataGetData", "MarketDataBestBidOffer", "MarketDataAggregateDepth"} => orderBookMap' = orderBookMap
       /\ (lastOp'.op = "MarketDataSubscribe" /\ lastOp'.status # "ok") => orderBookMap' = orderBookMap
       /\ lastOp'.op \in {"InquiryGetData", "InquirySendQuote", "InquiryRejectInquiry"} => inquiryData' = inquiryData
       /\ (lastOp'.op = "InquirySubscribe" /\ lastOp'.status = "invalid_argument") => inquiryData' = inquiryData
       /\ (lastOp'.op = "PricingGetData" \/ (lastOp'.op = "PricingSubscribe" /\ lastOp'.status # "ok")) => priceData' = priceData
       /\ (lastOp'.op = "TradeBookingGetData" \/ (lastOp'.op = "TradeBookingSubscribe" /\ lastOp'.status # "ok")) => tradeData' = tradeData]_vars

\* the sum of the quantities of the entries of stack whose index is in I
RECURSIVE SumQuantity(_, _)
SumQuantity(stack, I) == IF I = {} THEN 0 ELSE LET i == CHOOSE x \in I : TRUE IN stack[i].quantity + SumQuantity(stack, I \ {i})

\* agg is the aggregation of raw: one entry per price of raw, with the summed
\* quantity and the side, and the same total
IsAggregationOf(agg, raw, side) ==
    /\ {agg[i].price : i \in 1..Len(agg)} = {raw[i].price : i \in 1..Len(raw)}
    /\ \A i, j \in 1..Len(agg) : agg[i].price = agg[j].price => i = j
    /\ \A i \in 1..Len(agg) : agg[i].quantity = SumQuantity(raw, {j \in 1..Len(raw) : raw[j].price = agg[i].price}) /\ agg[i].side = side
    /\ SumQuantity(agg, 1..Len(agg)) = SumQuantity(raw, 1..Len(raw))

\* C12: AggregateDepth leaves, on each side, one Order per distinct price of
\* the raw stack, with the sum of the raw quantities at that price, and the
\* total quantity of the side is unchanged.
C12_AggregateDepth ==
    [][(lastOp'.op = "MarketDataAggregateDepth" /\ Has(orderBookMap, lastOp'.key)) =>
          /\ lastOp'.status = "ok"
          /\ IsAggregationOf(orderBookMap'[lastOp'.key].bidStack, orderBookMap[lastOp'.key].bidStack, "BID")
          /\ IsAggregationOf(orderBookMap'[lastOp'.key].offerStack, orderBookMap[lastOp'.key].offerStack, "OFFER")]_vars

\* a raw bid stack with three entries at one price has been aggregated into one
C12_Witness ==
    /\ lastOp.op = "MarketDataAggregateDepth" /\ lastOp.status = "ok" /\ opsLeft = MaxAggregations - 1
    /\ orderBookMap["9128283H1"].bidStack = <<Order(Mid - 1, 4 * LevelSize, "BID")>>
    /\ Len(orderBookMap["9128283H1"].offerStack) = 2

\* no two entries of the stack share a price, and each has the side
IsAggregated(stack, side) ==
    /\ \A i, j \in 1..Len(stack) : stack[i].price = stack[j].price => i = j
    /\ \A i \in 1..Len(stack) : stack[i].side = side

\* C13: AggregateDepth on a book whose stacks are already aggregated leaves both
\* stacks with the same set of (price, quantity, side) entries.
C13_Idempotent ==
    [][(/\ lastOp'.op = "MarketDataAggregateDepth" /\ Has(orderBookMap, lastOp'.key)
        /\ IsAggregated(orderBookMap[lastOp'.key].bidStack, "BID")
        /\ IsAggregated(orderBookMap[lastOp'.key].offerStack, "OFFER")) =>
          /\ lastOp'.status = "ok"
          /\ Range(orderBookMap'[lastOp'.key].bidStack) = Range(orderBookMap[lastOp'.key].bidStack)
          /\ Len(orderBookMap'[lastOp'.key].bidStack) = Len(orderBookMap[lastOp'.key].bidStack)
          /\ Range(orderBookMap'[lastOp'.key].offerStack) = Range(orderBookMap[lastOp'.key].offerStack)
          /\ Len(orderBookMap'[lastOp'.key].offerStack) = Len(orderBookMap[lastOp'.key].offerStack)]_vars

\* AggregateDepth has run on a book that an earlier AggregateDepth had merged
\* (three times the level size is on offer at one price only after a merge) and
\* that has two levels on each side
C13_Witness ==
    /\ lastOp.op = "MarketDataAggregateDepth" /\ lastOp.status = "ok" /\ lastOp.key = "9128283H1"
    /\ Len(lastOp.arg) = 1
    /\ Order(Mid + 2, 3 * LevelSize, "OFFER") \in Range(lastOp.arg[1].offerStack)
    /\ Len(lastOp.arg[1].bidStack) = 2 /\ IsAggregated(lastOp.arg[1].bidStack, "BID")
    /\ Len(orderBookMap["9128283H1"].bidStack) = 2 /\ Len(orderBookMap["9128283H1"].offerStack) = 2

\* C14: on a book with a bid and an offer, BestBidOffer gives a bid Order that
\* is in the bid stack and whose price no bid exceeds, and an offer Order that
\* is in the offer stack and whose price no offer undercuts.
C14_BestBidOffer ==
    (lastOp.op = "MarketDataBestBidOffer" /\ Len(lastOp.arg) = 1 /\ Quoted(lastOp.arg[1])) =>
        /\ lastOp.status = "ok" /\ Len(lastOp.result) = 1
        /\ lastOp.result[1].bidOrder \in Range(lastOp.arg[1].bidStack)
        /\ \A o \in Range(lastOp.arg[1].bidStack) : lastOp.result[1].bidOrder.price >= o.price
        /\ lastOp.result[1].offerOrder \in Range(lastOp.arg[1].offerStack)
        /\ \A o \in Range(lastOp.arg[1].offerStack) : lastOp.result[1].offerOrder.price <= o.price

\* BestBidOffer has run on a raw book whose best bid is neither first nor last
\* of three bids and whose best offer is the second of three
C14_Witness ==
    /\ lastOp.op = "MarketDataBestBidOffer" /\ lastOp.status = "ok" /\ Len(lastOp.arg) = 1
    /\ Len(lastOp.arg[1].bidStack) = 3 /\ Len(lastOp.arg[1].offerStack) = 3
    /\ lastOp.arg[1].bidStack[1].price = Mid - 2 /\ lastOp.arg[1].bidStack[3].price = Mid - 2
    /\ lastOp.result[1].bidOrder = lastOp.arg[1].bidStack[2] /\ lastOp.result[1].bidOrder.price = Mid - 1
    /\ lastOp.result[1].offerOrder = lastOp.arg[1].offerStack[2] /\ lastOp.result[1].offerOrder.price = Mid + 1

\* C15: after any sequence of order-book records, each stack of every stored
\* book and of every book published to the listeners holds at most BookDepth
\* entries.
C15_DepthBound ==
    /\ \A k \in DOMAIN orderBookMap : Len(orderBookMap[k].bidStack) <= BookDepth /\ Len(orderBookMap[k].offerStack) <= BookDepth
    /\ \A e \in Range(CallsIn(events, "MarketDataService")) : Len(e.data.bidStack) <= BookDepth /\ Len(e.data.offerStack) <= BookDepth

\* every Order of the bid stack is a bid and every Order of the offer stack an
\* offer
SidesRight(book) ==
    /\ \A i \in 1..Len(book.bidStack) : book.bidStack[i].side = "BID"
    /\ \A i \in 1..Len(book.offerStack) : book.offerStack[i].side = "OFFER"

\* C16: in every book stored by MarketDataService or published to its listeners,
\* every Order of the bid stack has side BID and every Order of the offer stack
\* has side OFFER.
C16_SideInvariant ==
    /\ \A k \in DOMAIN orderBookMap : SidesRight(orderBookMap[k])
    /\ \A e \in Range(CallsIn(events, "MarketDataService")) : SidesRight(e.data)

\* a second record of a product has been published, and the book stored and
\* published holds the levels of both records on both sides
C16_Witness ==
    /\ lastOp.op = "MarketDataSubscribe" /\ lastOp.status = "ok" /\ opsLeft = MaxOps - 2
    /\ Len(CallsIn(events, "MarketDataService")) = Len(MarketDataListeners)
    /\ Len(CallsIn(events, "MarketDataService")[1].data.bidStack) > BookDepth
    /\ Len(orderBookMap[lastOp.key].offerStack) > BookDepth

\* the position of a product in a book, zero when none is kept
PositionOf(pd, product, book) == IF Has(pd, product) /\ Has(pd[product].bookPositionData, book) THEN pd[product].bookPositionData[book] ELSE 0

\* the aggregate position of a product, zero when none is kept
AggregateOf(pd, product) == IF Has(pd, product) THEN GetAggregatePosition(pd[product]) ELSE 0

\* the signed quantities of the trades of a sequence that satisfy a condition
RECURSIVE SignedSum(_, _, _)
SignedSum(trades, product, books) ==
    IF trades = <<>> THEN 0
    ELSE (IF Head(trades).product = product /\ Head(trades).book \in books
          THEN (IF Head(trades).side = "BUY" THEN Head(trades).quantity ELSE -Head(trades).quantity) ELSE 0)
         + SignedSum(Tail(trades), product, books)

\* the trades handed to the position service during the last operation
TradesOf(evs) == [i \in 1..Len(CallsIn(evs, "TradeBookingService")) |-> CallsIn(evs, "TradeBookingService")[i].data]

BooksOf(pd) == UNION {DOMAIN pd[p].bookPositionData : p \in DOMAIN pd}

\* C17: the position of an instrument in a book is the sum of the quantities
\* of the trades booked for them, bought quantities added and sold ones
\* subtracted, and the aggregate position is the sum over the books: each
\* operation moves both by the signed quantities of the trades it hands to the
\* position service, starting from none.
C17_PositionFolding ==
    [][\A product \in DOMAIN positionData' \cup Cusips :
          /\ \A book \in BooksOf(positionData') :
                PositionOf(positionData', product, book) = PositionOf(positionData, product, book) + SignedSum(TradesOf(events'), product, {book})
          /\ AggregateOf(positionData', product) = AggregateOf(positionData, product) + SignedSum(TradesOf(events'), product, BooksOf(positionData'))
          /\ AggregateOf(positionData', product) = SumOver([b \in BooksOf(positionData') |-> PositionOf(positionData', product, b)], BooksOf(positionData'))]_vars

\* three trades of one instrument, two bought in one book and one sold in
\* another, have left 110 in the first book, -40 in the second and 70 in all
C17_Witness ==
    /\ lastOp.op = "TradeBookingSubscribe" /\ lastOp.status = "ok" /\ opsLeft = MaxTrades - 3
    /\ Has(positionData, "9128283H1")
    /\ positionData["9128283H1"].bookPositionData = [b \in {"TRSY1", "TRSY2"} |-> IF b = "TRSY1" THEN 110 ELSE -40]
    /\ GetAggregatePosition(positionData["9128283H1"]) = 70

\* C18: a Position is created by the first trade of its instrument and never
\* removed, and every AddTrade calls each PositionService listener once, in
\* registration order, with the Position that already includes the trade.
C18_PositionLifecycle ==
    [][/\ DOMAIN positionData \subseteq DOMAIN positionData'
       /\ \A p \in DOMAIN positionData' \ DOMAIN positionData : \E t \in Range(TradesOf(events')) : t.product = p
       /\ Len(CallsIn(events', "PositionService")) = Len(TradesOf(events')) * Len(PositionListeners)
       /\ (lastOp'.op = "TradeBookingSubscribe" /\ lastOp'.status = "ok") =>
             /\ TradesOf(events') = <<lastOp'.data>>
             /\ Has(positionData', lastOp'.data.product)
             /\ NotifiedInOrder(events', "PositionService", positionData'[lastOp'.data.product])
             /\ CallsIn(events', "PositionService")[1].data.bookPositionData[lastOp'.data.book]
                  = PositionOf(positionData, lastOp'.data.product, lastOp'.data.book) + SignedSum(<<lastOp'.data>>, lastOp'.data.product, {lastOp'.data.book})]_vars

\* the second trade of an instrument has been booked while another instrument
\* has a position too, and both listeners were called with the position of both
\* trades
C18_Witness ==
    /\ lastOp.op = "TradeBookingSubscribe" /\ lastOp.status = "ok" /\ lastOp.key = "T3"
    /\ DOMAIN positionData = Cusips
    /\ Len(CallsIn(events, "PositionService")) = 2
    /\ CallsIn(events, "PositionService")[1].listener = "RiskServiceListener"
    /\ CallsIn(events, "PositionService")[2].listener = "HistoricalPositionListener"
    /\ CallsIn(events, "PositionService")[2].data.bookPositionData["TRSY1"] = 110

\* text that is a number: digits only, at least one
IsNumber(s) == Len(s) > 0 /\ \A i \in 1..Len(s) : IsDigit(s[i])

\* text in the price notation I-XYz: digits, a dash, two digits and a digit or +
IsPriceNotation(s) ==
    /\ Find(s, "-") > 1 /\ Len(s) = Find(s, "-") + 3
    /\ IsNumber(SubSeq(s, 1, Find(s, "-") - 1))
    /\ IsNumber(SubSeq(s, Find(s, "-") + 1, Find(s, "-") + 2))
    /\ (IsDigit(s[Len(s)]) \/ s[Len(s)] = "+")

\* a record that does not have the format of its feed
MalformedPriceLine(l) == Len(l) # 4 \/ ~IsPriceNotation(l[3]) \/ ~IsPriceNotation(l[4])

MalformedTradeLine(l) == Len(l) # 6 \/ ~IsPriceNotation(l[3]) \/ ~IsNumber(l[5])

MalformedFeedLine(l) ==
    \/ Len(l) # 2 + 4 * BookDepth
    \/ \E i \in 0..(BookDepth - 1) : ~IsPriceNotation(l[4 * i + 3]) \/ ~IsNumber(l[4 * i + 4]) \/ ~IsPriceNotation(l[4 * i + 5]) \/ ~IsNumber(l[4 * i + 6])

\* C19: a malformed record makes Subscribe fail with an error at that record,
\* the record is not delivered to OnMessage, and no record is read after a
\* record that failed.
C19_FailStop ==
    [][/\ (lastOp'.op = "PricingSubscribe" /\ MalformedPriceLine(lastOp'.arg)) =>
             (lastOp'.status = "invalid_argument" /\ events' = <<>> /\ priceData' = priceData)
       /\ (lastOp'.op = "TradeBookingSubscribe" /\ MalformedTradeLine(lastOp'.arg)) =>
             (lastOp'.status = "invalid_argument" /\ events' = <<>> /\ tradeData' = tradeData)
       /\ (lastOp'.op = "MarketDataSubscribe" /\ MalformedFeedLine(lastOp'.arg)) =>
             (lastOp'.status = "invalid_argument" /\ events' = <<>>)
       /\ (lastOp.op \in {"PricingSubscribe", "TradeBookingSubscribe", "MarketDataSubscribe"} /\ lastOp.status # "ok") => UNCHANGED vars]_vars

\* the stores and counters of the services
Stores == <<priceData, orderBookMap, algoExecutionData, count, randCalls, executionData, tradeData, listenerCount, positionData, riskData, inquiryData>>

DataOf(evs, svc, l) ==
    [i \in 1..Len(SelectSeq(evs, LAMBDA e : e.ev = "call" /\ e.svc = svc /\ e.listener = l)) |->
        SelectSeq(evs, LAMBDA e : e.ev = "call" /\ e.svc = svc /\ e.listener = l)[i].data]

\* every line of the sequence is a well-formed record of a known product
WellFormedPriceRecords(recs) == \A i \in 1..Len(recs) : ~MalformedPriceLine(recs[i]) /\ QueryProductOk(recs[i][2])

WellFormedFeedRecords(recs) == \A i \in 1..Len(recs) : ~MalformedFeedLine(recs[i]) /\ QueryProductOk(recs[i][2])

WellFormedTradeRecords(recs) == \A i \in 1..Len(recs) : ~MalformedTradeLine(recs[i]) /\ QueryProductOk(recs[i][1])

\* C21: for a feed of n well-formed records the connector calls OnMessage once
\* per record in record order: every listener of the service is called n times,
\* the i-th time with the value of the i-th record, and AlgoExecuteOrder runs
\* once per order-book record, in feed order.
C21_FeedOrder ==
    /\ (lastOp.op = "PricingSubscribeFile" /\ WellFormedPriceRecords(Tail(lastOp.arg))) =>
         /\ lastOp.status = "ok" /\ AllReturned(events)
         /\ \A l \in Range(PricingListeners) :
              DataOf(events, "PricingService", l) =
                 [i \in 1..(Len(lastOp.arg) - 1) |-> Price(lastOp.arg[i + 1][2], Frac2Price(lastOp.arg[i + 1][3]).price + Frac2Price(lastOp.arg[i + 1][4]).price,
                                                          Frac2Price(lastOp.arg[i + 1][4]).price - Frac2Price(lastOp.arg[i + 1][3]).price)]
    /\ (lastOp.op = "MarketDataSubscribeFile" /\ WellFormedFeedRecords(Tail(lastOp.arg))) =>
         /\ lastOp.status = "ok" /\ AllReturned(events)
         /\ [i \in 1..Len(DataOf(events, "MarketDataService", "AlgoExecutionServiceListener")) |-> DataOf(events, "MarketDataService", "AlgoExecutionServiceListener")[i].product]
               = [i \in 1..(Len(lastOp.arg) - 1) |-> lastOp.arg[i + 1][2]]
         /\ \A l \in Range(AlgoExecutionListeners) :
              [i \in 1..Len(DataOf(events, "AlgoExecutionService", l)) |-> DataOf(events, "AlgoExecutionService", l)[i].executionOrder.product]
                 = [i \in 1..(Len(lastOp.arg) - 1) |-> lastOp.arg[i + 1][2]]
         /\ count = Len(lastOp.arg) - 1
    /\ (lastOp.op = "TradeBookingSubscribeFile" /\ WellFormedTradeRecords(lastOp.arg)) =>
         /\ lastOp.status = "ok" /\ AllReturned(events)
         /\ \A l \in Range(TradeBookingListeners) :
              [i \in 1..Len(DataOf(events, "TradeBookingService", l)) |-> DataOf(events, "TradeBookingService", l)[i].tradeId]
                 = [i \in 1..Len(lastOp.arg) |-> lastOp.arg[i][2]]

\* an order-book file with a record of the second product and then one of the
\* first has been read: the trigger ran on the second product, then on the
\* first
C21_Witness ==
    /\ lastOp.op = "MarketDataSubscribeFile" /\ lastOp.status = "ok" /\ Len(lastOp.arg) = 3
    /\ lastOp.arg[2][2] = "9128283L2" /\ lastOp.arg[3][2] = "9128283H1"
    /\ Len(DataOf(events, "AlgoExecutionService", "ExecutionServiceListener")) = 2
    /\ DataOf(events, "AlgoExecutionService", "ExecutionServiceListener")[1].executionOrder.product = "9128283L2"
    /\ DataOf(events, "AlgoExecutionService", "ExecutionServiceListener")[2].executionOrder.product = "9128283H1"

\* C22: every inbound connector skips the first line of its file as a header
\* and delivers every later line, and only those, to OnMessage.
C22_HeaderSkipped ==
    /\ (lastOp.op = "PricingSubscribeFile" /\ WellFormedPriceRecords(Tail(lastOp.arg))) =>
         /\ lastOp.status = "ok"
         /\ [i \in 1..Len(DataOf(events, "PricingService", PricingListeners[1])) |-> DataOf(events, "PricingService", PricingListeners[1])[i].product]
               = [i \in 1..(Len(lastOp.arg) - 1) |-> lastOp.arg[i + 1][2]]
    /\ (lastOp.op = "MarketDataSubscribeFile" /\ WellFormedFeedRecords(Tail(lastOp.arg))) =>
         /\ lastOp.status = "ok"
         /\ [i \in 1..Len(DataOf(events, "MarketDataService", MarketDataListeners[1])) |-> DataOf(events, "MarketDataService", MarketDataListeners[1])[i].product]
               = [i \in 1..(Len(lastOp.arg) - 1) |-> lastOp.arg[i + 1][2]]
    /\ (lastOp.op = "TradeBookingSubscribeFile" /\ lastOp.arg # <<>> /\ WellFormedTradeRecords(Tail(lastOp.arg))) =>
         /\ lastOp.status = "ok"
         /\ [i \in 1..Len(DataOf(events, "TradeBookingService", TradeBookingListeners[1])) |-> DataOf(events, "TradeBookingService", TradeBookingListeners[1])[i].tradeId]
               = [i \in 1..(Len(lastOp.arg) - 1) |-> lastOp.arg[i + 1][2]]
    /\ (lastOp.op = "InquirySubscribeFile" /\ lastOp.arg # <<>> /\ \A i \in 2..Len(lastOp.arg) : QueryProductOk(lastOp.arg[i][2])) =>
         /\ lastOp.status = "ok"
         /\ {e.data.inquiryId : e \in Range(CallsIn(events, "InquiryService"))} = {lastOp.arg[i][1] : i \in 2..Len(lastOp.arg)}

\* C23: the algo-execution store keeps the latest intent per instrument: after
\* a trigger, GetData of the instrument gives the intent just emitted, which is
\* the value the listeners were called with, every entry is stored under its
\* own instrument, and the entries of the other instruments are untouched.
C23_LatestIntent ==
    [][(lastOp'.triggered /\ lastOp'.status = "ok" /\ ~aborted') =>
          /\ Len(CallsIn(events', "AlgoExecutionService")) = Len(AlgoExecutionListeners)
          /\ \A e \in Range(CallsIn(events', "AlgoExecutionService")) :
                Lookup(algoExecutionData', lastOp'.book.product) = [status |-> "ok", value |-> e.data]
          /\ \A k \in DOMAIN algoExecutionData' : algoExecutionData'[k].executionOrder.product = k
          /\ \A k \in DOMAIN algoExecutionData' \ {lastOp'.book.product} : Has(algoExecutionData, k) /\ algoExecutionData'[k] = algoExecutionData[k]
          /\ DOMAIN algoExecutionData \subseteq DOMAIN algoExecutionData']_vars

\* the third trigger of a run has replaced the intent of one instrument while
\* the other instrument keeps its own
C23_Witness ==
    /\ lastOp.triggered /\ lastOp.status = "ok" /\ ~aborted /\ opsLeft = MaxTriggers - 3
    /\ DOMAIN algoExecutionData = Cusips
    /\ algoExecutionData[lastOp.book.product].executionOrder.orderId = <<"Algo", 4>>
    /\ \E k \in Cusips : algoExecutionData[k].executionOrder.orderId \in {<<"Algo", 0>>, <<"Algo", 2>>}
    /\ CallsIn(events, "AlgoExecutionService")[1].data = algoExecutionData[lastOp.book.product]

\* C24: the alternation counter is one counter of the service, shared by all
\* instruments: it starts at 0, no step decreases it or sets it back, and every
\* trigger that returns, on whatever instrument, adds one to it.
C24_SingleCounter ==
    /\ count = 0
    /\ [][/\ count' >= count
          /\ (lastOp'.triggered /\ lastOp'.status = "ok" /\ ~aborted') => count' = count + 1]_vars

\* a trigger on one instrument has moved the counter on from the value a
\* trigger on the other instrument left
C24_Witness ==
    /\ lastOp.triggered /\ lastOp.status = "ok" /\ ~aborted
    /\ count = 2
    /\ \E k \in Cusips \ {lastOp.book.product} : Has(algoExecutionData, k) /\ algoExecutionData[k].executionOrder.orderId = <<"Algo", 0>>

\* a trigger that passed the spread test has just run
QualifyingTrigger == lastOp.triggered /\ lastOp.status = "ok" /\ Qualifies(lastOp.book)

\* the trigger that has just run emitted an intent of this side
Emitted(side) == lastOp.triggered /\ lastOp.status = "ok" /\ algoExecutionData[lastOp.book.product].executionOrder.side = side

\* C25: in every run in which qualifying triggers keep occurring, intents of
\* side BID and intents of side OFFER are both emitted again and again, whatever
\* non-qualifying triggers come in between.
C25_BothSides == ([]<>QualifyingTrigger) => (([]<>Emitted("BID")) /\ ([]<>Emitted("OFFER")))

\* s is I-XYz with I a run of digits, XY two digits and z a digit or '+'
IsXYz(s) ==
    LET posDash == Find(s, "-")
    IN  /\ posDash > 1 /\ Len(s) = posDash + 3
        /\ \A i \in 1..(posDash - 1) : IsDigit(s[i])
        /\ IsDigit(s[posDash + 1]) /\ IsDigit(s[posDash + 2])
        /\ s[Len(s)] \in ZChars

\* s is a text the encoder writes: I without leading zeros, XY from 00 to 31, z
\* from 0 to 7 with 4 written '+'
IsEncoderText(s) ==
    /\ IsXYz(s)
    /\ (s[1] = "0" => Find(s, "-") = 2)
    /\ DigitsValue(SubSeq(s, Find(s, "-") + 1, Find(s, "-") + 2)) < 32
    /\ s[Len(s)] \in {"0", "1", "2", "3", "+", "5", "6", "7"}

\* C26 as stated: for every text s of the shape I-XYz, z a digit or '+',
\* Price2Frac(Frac2Price(s)) = s.
C26_RoundTripStrings ==
    (lastOp.op = "Price2Frac" /\ lastOp.key = "decoded" /\ IsXYz(lastOp.data)) => lastOp.result = lastOp.data

\* C26, amended: for every text s that the encoder writes (I without leading
\* zeros, XY from 00 to 31, z from 0 to 7 with 4 written '+'),
\* Frac2Price(s) returns a price and Price2Frac of it is s.
C26_RoundTripEncoderTexts ==
    /\ (lastOp.op = "Frac2Price" /\ IsEncoderText(lastOp.arg)) => lastOp.status = "ok"
    /\ (lastOp.op = "Price2Frac" /\ lastOp.key = "decoded" /\ IsEncoderText(lastOp.data)) => lastOp.result = lastOp.data

\* the text 99-16+ has been decoded and the price encoded again
C26_Witness ==
    lastOp.op = "Price2Frac" /\ lastOp.key = "decoded" /\ lastOp.data = <<"9", "9", "-", "1", "6", "+">> /\ lastOp.arg = 99 * Unit + 16 * 8 + 4

ValueOfXYz(s) ==
    LET posDash == Find(s, "-")
    IN  DigitsValue(SubSeq(s, 1, posDash - 1)) * Unit + DigitsValue(SubSeq(s, posDash + 1, posDash + 2)) * 8
          + (IF s[Len(s)] = "+" THEN 4 ELSE DigitVal(s[Len(s)]))

\* C28: Frac2Price fails, returning no price, on every text without a dash and
\* on every text whose part after the first dash is not of 3 characters; on
\* every text I-XYz it returns I + XY/32 + z/256 with '+' read as 4.
C28_Decode ==
    /\ (lastOp.op = "Frac2Price" /\ (Find(lastOp.arg, "-") = 0 \/ Len(lastOp.arg) - Find(lastOp.arg, "-") # 3))
          => (lastOp.status = "invalid_argument" /\ ~lastOp.result.ok)
    /\ (lastOp.op = "Frac2Price" /\ IsXYz(lastOp.arg))
          => (lastOp.status = "ok" /\ lastOp.result = [ok |-> TRUE, price |-> ValueOfXYz(lastOp.arg)])

\* a text with a dash and four characters after it has been refused
C28_Witness ==
    /\ lastOp.op = "Frac2Price" /\ lastOp.arg = <<"9", "9", "-", "1", "6", "0", "0">>
    /\ Find(lastOp.arg, "-") = 3 /\ lastOp.status = "invalid_argument"

\* the price record of 9128283H1 with bid 99-160 and ask 99-200 has been read
ScenarioRead ==
    /\ lastOp.op = "PricingSubscribe" /\ Len(lastOp.arg) = 4
    /\ lastOp.arg[2] = "9128283H1"
    /\ lastOp.arg[3] = <<"9", "9", "-", "1", "6", "0">>
    /\ lastOp.arg[4] = <<"9", "9", "-", "2", "0", "0">>

\* the record was taken, and the Price stored and given to every listener has
\* this mid (in 1/512ths) and a spread that is spreadNum / spreadDen
ScenarioPrice(mid, spreadNum, spreadDen) ==
    /\ lastOp.status = "ok" /\ ~aborted
    /\ Has(priceData, "9128283H1")
    /\ priceData["9128283H1"].product = "9128283H1"
    /\ priceData["9128283H1"].mid = mid
    /\ priceData["9128283H1"].bidOfferSpread * spreadDen = spreadNum * Unit
    /\ Len(CallsIn(events, "PricingService")) = Len(PricingListeners)
    /\ \A e \in Range(CallsIn(events, "PricingService")) : e.data = priceData["9128283H1"]

\* C29 as stated: the record with bid 99-160 and ask 99-200 of 9128283H1 stores
\* and publishes a Price with mid 99 + 18/32 and spread 0.0125.
C29_ScenarioAsStated == ScenarioRead => ScenarioPrice(2 * (99 * Unit + 18 * 8), 125, 10000)

\* C29, amended: the record with bid 99-160 and ask 99-200 of 9128283H1 stores
\* and publishes a Price with mid 99 + 18/32 = 99.5625 and spread 4/32 = 0.125.
C29_Scenario == ScenarioRead => ScenarioPrice(2 * (99 * Unit + 18 * 8), 125, 1000)

\* the record of the scenario has been read and its Price published
C29_Witness == ScenarioRead /\ lastOp.status = "ok" /\ priceData["9128283H1"] = Price("9128283H1", 2 * 99 * Unit + 288, 32) /\ CallsIn(events, "PricingService") # <<>>

\* the executions that the TradeBookingServiceListener received in the last
\* operation, in order
ExecutionsReceived(evs) == SelectSeq(CallsIn(evs, "ExecutionService"), LAMBDA e : e.listener = "TradeBookingServiceListener")

\* the trade that the k-th execution is to become
TradeOfExecution(order, k) ==
    [product |-> order.product, tradeId |-> order.orderId, price |-> order.price,
     book |-> <<"TRSY1", "TRSY2", "TRSY3">>[(k % 3) + 1],
     quantity |-> order.visibleQuantity + order.hiddenQuantity,
     side |-> IF order.side = "BID" THEN "BUY" ELSE "SELL"]

\* C30: the k-th execution that the TradeBookingServiceListener receives, k
\* counted from 0 over all instruments, becomes a trade on book TRSY1, TRSY2 or
\* TRSY3 for k mod 3 = 0, 1, 2, with the order's id, price, visible plus hidden
\* quantity and side BUY for BID and SELL otherwise, and the trade is given to
\* every listener of the TradeBookingService.
C30_ExecutionBooked ==
    [][(lastOp'.triggered /\ lastOp'.status = "ok" /\ ~aborted') =>
          /\ Len(ExecutionsReceived(events')) = 1
          /\ listenerCount = MaxTriggers - opsLeft
          /\ listenerCount' = listenerCount + 1
          /\ Len(CallsIn(events', "TradeBookingService")) = Len(TradeBookingListeners)
          /\ \A i \in 1..Len(TradeBookingListeners) :
                /\ CallsIn(events', "TradeBookingService")[i].listener = TradeBookingListeners[i]
                /\ CallsIn(events', "TradeBookingService")[i].data = TradeOfExecution(ExecutionsReceived(events')[1].data, listenerCount)]_vars

\* the third execution of a run, of another instrument than the first, has
\* been booked on TRSY3
C30_Witness ==
    /\ lastOp.triggered /\ lastOp.status = "ok" /\ ~aborted /\ listenerCount = 3
    /\ CallsIn(events, "TradeBookingService")[1].data.book = "TRSY3"
    /\ CallsIn(events, "TradeBookingService")[1].data.tradeId = <<"Algo", 4>>
    /\ \E k \in Cusips \ {lastOp.book.product} : Has(algoExecutionData, k)

\* the states the inquiry of the last operation went through after it came in
StatesOf(evs, inquiryId) ==
    [i \in 1..Len(SelectSeq(evs, LAMBDA e : e.ev = "SetState" /\ e.listener = inquiryId)) |->
        SelectSeq(evs, LAMBDA e : e.ev = "SetState" /\ e.listener = inquiryId)[i].data]

\* an inquiry record in state RECEIVED has been fed and OnMessage has returned
ReceivedFed == lastOp.op = "InquirySubscribe" /\ lastOp.status = "ok" /\ lastOp.data # <<>> /\ lastOp.data.state = "RECEIVED"

\* C31: an inquiry delivered to OnMessage in state RECEIVED goes through
\* RECEIVED, QUOTED, DONE in that order within the call, never backwards, and is
\* in state DONE when the call returns.
C31_Workflow ==
    ReceivedFed =>
        /\ <<lastOp.data.state>> \o StatesOf(events, lastOp.key) = <<"RECEIVED", "QUOTED", "DONE">>
        /\ lastOp.result = [lastOp.data EXCEPT !.state = "DONE"]
        /\ ~aborted

\* the RECEIVED inquiry I1 has been fed and has come back DONE
C31_Witness == ReceivedFed /\ lastOp.key = "I1" /\ lastOp.result.state = "DONE" /\ Len(StatesOf(events, "I1")) = 2

\* an inquiry record has been parsed and given to OnMessage in one of these states
InquiryFed(states) == lastOp.op = "InquirySubscribe" /\ lastOp.data # <<>> /\ lastOp.data.state \in states

\* after OnMessage of an inquiry that reached DONE the id is not in the store
\* and GetData of it fails with not-found
DoneRemoved ==
    InquiryFed({"RECEIVED", "QUOTED", "DONE"}) =>
        /\ lastOp.status = "ok" /\ lastOp.result.state = "DONE"
        /\ ~Has(inquiryData, lastOp.key)
        /\ InquiryService_GetData(State, lastOp.key).status = "Key not found"

\* after OnMessage of a rejected inquiry the inquiry is stored under its id
RejectedStored ==
    InquiryFed({"REJECTED", "CUSTOMER_REJECTED"}) =>
        /\ lastOp.status = "ok"
        /\ InquiryService_GetData(State, lastOp.key) = [st |-> State, status |-> "ok", value |-> lastOp.data]

\* C32: after OnMessage returns for an inquiry that reached DONE (delivered as
\* RECEIVED, QUOTED or DONE) its id is absent from the store and GetData fails
\* with not-found; an inquiry delivered as REJECTED or CUSTOMER_REJECTED is
\* stored under its id.
C32_DoneRemoved == DoneRemoved /\ RejectedStored

\* C33: an inquiry fed in state RECEIVED has every listener of the
\* InquiryService called exactly once, with the inquiry in state DONE.
C33_NotifiedOnce ==
    ReceivedFed =>
        /\ \A i \in 1..Len(InquiryListeners) :
              Cardinality({j \in 1..Len(events) : events[j].ev = "call" /\ events[j].svc = "InquiryService" /\ events[j].listener = InquiryListeners[i]}) = 1
        /\ \A e \in Range(CallsIn(events, "InquiryService")) : e.data = [lastOp.data EXCEPT !.state = "DONE"]

\* every call of an inquiry listener for a RECEIVED record carries the inquiry
\* in state DONE
NotifiedDone == ReceivedFed => \A e \in Range(CallsIn(events, "InquiryService")) : e.data = [lastOp.data EXCEPT !.state = "DONE"]

\* every bid price of the record is strictly below every offer price of it
UncrossedRecord(splitdata) ==
    \A b \in Range(RecordStack(splitdata, "BID")), o \in Range(RecordStack(splitdata, "OFFER")) : b.price < o.price

\* C34: if in every record of the order-book feed each bid price is strictly
\* below each offer price, then in every book published to the listeners the
\* best bid price is strictly below the best offer price.
C34_Uncrossed ==
    (/\ lastOp.op = "MarketDataSubscribeFile"
     /\ WellFormedFeedRecords(Tail(lastOp.arg))
     /\ \A i \in 2..Len(lastOp.arg) : UncrossedRecord(lastOp.arg[i]))
    => \A book \in Range(DataOf(events, "MarketDataService", MarketDataListeners[1])) : Quoted(book) /\ SpreadOf(book) > 0

\* the trades given to the listeners of the TradeBookingService in the last
\* operation are in the trade store under their ids
DeliveredStored(op) ==
    (lastOp.op = op /\ ~aborted) =>
        \A e \in Range(CallsIn(events, "TradeBookingService")) :
            TradeBookingService_GetData(State, e.data.tradeId).status = "ok"

\* C35: every trade delivered to the listeners of the TradeBookingService, from
\* the trade feed through OnMessage or from an execution through BookTrade, is
\* stored under its trade id, so that GetData of the id succeeds afterwards.
C35_DeliveredStored ==
    /\ DeliveredStored("TradeBookingSubscribe")
    /\ DeliveredStored("AlgoExecuteOrder")
    /\ DeliveredStored("MarketDataSubscribe")

\* the trade of the feed is stored when its listeners have been called
FeedTradeStored == DeliveredStored("TradeBookingSubscribe")

\* C36: an order-book record whose parsing fails part-way leaves the store as
\* it was: the book of its instrument is the one stored before the record was
\* read, and no book is created for an instrument seen only in that record.
C36_NoTrace ==
    [][(lastOp'.op = "MarketDataSubscribe" /\ MalformedFeedLine(lastOp'.arg) /\ lastOp'.status = "invalid_argument")
          => orderBookMap' = orderBookMap]_vars

\* the last operation delivered a trade whose trade id was already stored
Redelivered == lastOp'.op = "TradeBookingSubscribe" /\ lastOp'.status = "ok" /\ Has(tradeData, lastOp'.key)

\* C37: positions are accumulated per delivered trade message, not per trade
\* id: when OnMessage receives a trade whose id is already stored, the stored
\* trade is overwritten (the ids of the store are the same, the entry is the
\* new trade) and the signed quantity of the trade is added to the position of
\* its instrument again, in its book and in the aggregate.
C37_PerMessage ==
    [][Redelivered =>
          /\ DOMAIN tradeData' = DOMAIN tradeData
          /\ tradeData'[lastOp'.key] = lastOp'.data
          /\ \A k \in DOMAIN tradeData \ {lastOp'.key} : tradeData'[k] = tradeData[k]
          /\ PositionOf(positionData', lastOp'.data.product, lastOp'.data.book)
                = PositionOf(positionData, lastOp'.data.product, lastOp'.data.book)
                  + (IF lastOp'.data.side = "BUY" THEN lastOp'.data.quantity ELSE -lastOp'.data.quantity)
          /\ AggregateOf(positionData', lastOp'.data.product)
                = AggregateOf(positionData, lastOp'.data.product)
                  + (IF lastOp'.data.side = "BUY" THEN lastOp'.data.quantity ELSE -lastOp'.data.quantity)]_vars

\* the trade T1, 100 bought in TRSY1, has been delivered twice: the store has
\* the one entry and the position is 200
C37_Witness ==
    /\ lastOp.op = "TradeBookingSubscribe" /\ lastOp.status = "ok" /\ lastOp.key = "T1"
    /\ opsLeft = MaxTrades - 2
    /\ DOMAIN tradeData = {"T1"}
    /\ tradeData["T1"] = lastOp.data
    /\ lastOp.data.book = "TRSY1"
    /\ PositionOf(positionData, "9128283H1", "TRSY1") = 200

==========================================================================
